---- MODULE Spec2Model ----
(***************************************************************************)
(* Iteration control of SU2_CFD (iteration_structure.cpp, version 7.0.3): *)
(* the inner loops of CFluidIteration/CHeatIteration::Solve, the three     *)
(* solve strategies of CFEAIteration::Iterate, the recording protocol of   *)
(* CDiscAdjFEAIteration::SetRecording and the restart loaders of the       *)
(* discrete-adjoint iterations.  Collaborators (solver, integration,       *)
(* output, AD tape) are represented by the state they expose and by the    *)
(* log of the calls made on them.                                          *)
(***************************************************************************)
EXTENDS Integers, Sequences, FiniteSets, TLC

(***************************************************************************)
(* Bounds of the model.                                                    *)
(***************************************************************************)
MaxInnerIter == 4       \* largest configured nInner_Iter
MaxIncrements == 2      \* largest configured number of load increments
MaxAdjointIter == 2     \* largest configured Unst_AdjointIter
MaxMGLevels == 1        \* largest configured nMGLevels
MaxPoint == 2           \* largest number of mesh points of the FEA zone
MaxFileZones == 3       \* most zones of one file of the zone/variable metadata
MaxFileVars == 1        \* most variables of one file of the zone/variable metadata
MaxGlobalID == 2        \* largest global ID of a CPointFEM
MaxPeriodIndex == 1     \* largest periodic donor index of a CPointFEM
MaxDirectIter == 1      \* largest direct iteration index asked of a loader
nInst == 2              \* number of time instances
nZone == 2              \* number of zones
EntryInnerIter == 7     \* an inner-iteration count left by the driver
MaxTimeIter == 3        \* largest time step the primal driver reaches
MaxWaveLength == 2      \* largest configured gust wavelength
MaxFileLines == 3       \* most lines of vortex_distribution.txt, header included
MaxUnstAdjointIter == 4 \* largest Unst_AdjointIter of an unsteady fluid adjoint
MaxAeroelasticIter == 2 \* largest configured aeroelastic interval
MaxTotalTime == 3       \* largest configured total time, in units of the smallest time step
MaxDeltaTime == 2       \* largest configured time step

(***************************************************************************)
(* Program constants.                                                      *)
(***************************************************************************)
ZONE_0 == 0

Zones == 0 .. (nZone - 1)

VARIABLES
  \* ---- configuration (CConfig of the zone) ----
  cfg,            \* options that no iteration changes
  cfgInnerIter,   \* config[z]->GetInnerIter(), per zone
  cfgTimeIter,    \* config[val_iZone]->GetTimeIter()
  val_iZone,      \* the zone the running operation was called for
  \* ---- CFEAIteration::Iterate ----
  feaPc,          \* position inside Iterate
  IntIter,        \* local IntIter
  iIncrement,     \* local iIncrement
  StopCalc,       \* local StopCalc
  CurIter,        \* local CurIter of the direct branch
  feaLog,         \* calls made by the running / last Iterate
  feaLoad,        \* feaSolver: idxIncrement, loadIncrement, ForceCoeff
  intConv,        \* integration[...] convergence flag, per physics
  outConv,        \* output convergence flag
  \* ---- AD tape and CDiscAdjFEAIteration::SetRecording ----
  tapeActive,     \* AD: a recording is active
  tape,           \* AD: entries on the tape
  CurrentRecording,
  srPc,           \* position inside SetRecording
  srLocal,        \* locals of SetRecording
  srLog,          \* calls made by the running / last SetRecording
  srHist,         \* observations about the sequence of SetRecording calls
  \* ---- CFluidIteration::Solve, CHeatIteration::Solve ----
  solPc,          \* position inside Solve
  solKind,        \* "Fluid" or "Heat": whose Solve runs
  val_iInst,      \* the instance Solve was called for
  Inner_Iter,     \* local Inner_Iter
  solStopCalc,    \* local StopCalc of Solve
  solLog,         \* calls made by the running / last Solve
  WallFunction_Start_Iter,   \* config->GetWallFunction_Start_Iter()
  \* ---- restart loaders of the discrete-adjoint iterations ----
  ldSol,          \* flow, turbulence and heat solution, per multigrid level
  ldNodes,        \* FEA nodes: Solution, Solution_Accel, Solution_Vel per point and variable
  ldLog,          \* calls made by the last loader
  ldCall,         \* the last loader call: which loader, val_DirectIter
  \* ---- solution and coordinate history of the solvers ----
  hsSol,          \* per (zone, instance), physics, level: Solution, Solution_time_n, ...
  hsGeo,          \* per (zone, instance), level: Coord, Coord_n, Coord_n1, Coord_Old
  hsLog,          \* calls made by the last Update / Preprocess / adjoint Iterate
  hsCall,         \* the last such call and what it found
  \* ---- CFluidIteration::SetWind_GustField ----
  gustPc,         \* position inside SetWind_GustField
  gustNodes,      \* per level and point: Coord, GridVel, WindGust, WindGustDer
  gustFile,       \* vortex_distribution.txt: absent, or its lines
  gustVortex,     \* locals nVortex, x0 (one entry per vortex read) and the file opened
  gustPos         \* locals iMGlevel, iPoint

cfgVars == <<cfg, cfgInnerIter, cfgTimeIter, val_iZone>>
feaVars == <<feaPc, IntIter, iIncrement, StopCalc, CurIter, feaLog, feaLoad, intConv, outConv>>
recVars == <<tapeActive, tape, CurrentRecording, srPc, srLocal, srLog, srHist>>
solVars == <<solPc, solKind, val_iInst, Inner_Iter, solStopCalc, solLog, WallFunction_Start_Iter>>
ldVars == <<ldSol, ldNodes, ldLog, ldCall>>
hsVars == <<hsSol, hsGeo, hsLog, hsCall>>
gustVars == <<gustPc, gustNodes, gustFile, gustVortex, gustPos>>
otherVars == <<hsVars, gustVars>>
vars == <<cfgVars, feaVars, recVars, solVars, ldVars, otherVars>>

\* the state outside the structural iteration and its recording
restOfFEA == <<solVars, ldVars, otherVars>>

(***************************************************************************)
(* Load fractions: su2double values i/N are kept as reduced fractions.     *)
(***************************************************************************)
RECURSIVE GCD(_, _)
GCD(a, b) == IF b = 0 THEN a ELSE GCD(b, a % b)

Frac(p, q) == <<p \div GCD(p, q), q \div GCD(p, q)>>

FullLoad == Frac(1, 1)

\* su2double(iIncrement) / nIncrements
LoadIncrementOf_Mut(i, N) == Frac(i, N + 1)

LoadIncrementOf(i, N) == Frac(i, N)

(***************************************************************************)
(* Configuration.                                                          *)
(***************************************************************************)
linear == cfg.GeometricConditions = "SMALL_DEFORMATIONS"
nonlinear == cfg.GeometricConditions = "LARGE_DEFORMATIONS"
disc_adj_fem == cfg.Discrete_Adjoint
\* line 1248: loads applied in steps, not used for discrete adjoint
incremental_load_Mut == cfg.IncrementalLoad

incremental_load == cfg.IncrementalLoad /\ ~disc_adj_fem
nInner_Iter == cfg.nInner_Iter
nIncrements == cfg.NumberIncrements

ConfigFEA ==
  [ GeometricConditions : {"SMALL_DEFORMATIONS", "LARGE_DEFORMATIONS"},
    IncrementalLoad : BOOLEAN,
    Discrete_Adjoint : BOOLEAN,
    HistoryOutput : BOOLEAN,
    nInner_Iter : 0 .. MaxInnerIter,
    NumberIncrements : 0 .. MaxIncrements,
    Time_Domain : {FALSE},
    Unst_AdjointIter : {0} ]

(***************************************************************************)
(* CFEAIteration::Monitor: the history output runs for multizone problems  *)
(* and for the single-zone driver and recomputes the convergence flag of   *)
(* the output; the result is that flag.                                    *)
(***************************************************************************)
MonitorResults == IF cfg.HistoryOutput THEN BOOLEAN ELSE {outConv}

\* config->SetInnerIter(n); Structural_Iteration(...)
IterEvents(n) ==
  << <<"SetInnerIter", val_iZone, n>>,
     <<"Structural_Iteration", val_iZone, cfgTimeIter, n, tapeActive>> >>

\* what a structural iteration leaves on the tape
TapeAfterIter == IF tapeActive
                   THEN Append(tape, <<"Structural_Iteration", cfgTimeIter>>)
                   ELSE tape

FEAIdle == feaPc \in {"idle", "done"}

\* the caller's side of a call of CFEAIteration::Iterate
FEA_Invoke ==
  /\ feaPc' = "entry"
  /\ feaLog' = <<>>
  /\ IntIter' = 0
  /\ iIncrement' = 0
  /\ StopCalc' = FALSE
  /\ CurIter' = 0
  /\ UNCHANGED <<feaLoad, intConv, outConv>>

\* lines 1238-1258 and the choice of the branch
FEA_Entry ==
  /\ feaPc = "entry"
  /\ intConv' = [intConv EXCEPT !.FEA_SOL = FALSE]
  /\ feaLog' = Append(feaLog, <<"SetConvergence", FALSE>>)
  /\ feaPc' = IF linear THEN "linear"
              ELSE IF nonlinear /\ ~incremental_load THEN "direct"
              ELSE "inc_entry"
  /\ CurIter' = IF ~linear /\ nonlinear /\ ~incremental_load
                  THEN cfgInnerIter[val_iZone] ELSE CurIter
  /\ UNCHANGED <<IntIter, iIncrement, StopCalc, feaLoad, outConv>>
  /\ UNCHANGED <<cfgVars, recVars>>
  /\ UNCHANGED restOfFEA

\* lines 1260-1276
FEA_Linear ==
  /\ feaPc = "linear"
  /\ cfgInnerIter' = [cfgInnerIter EXCEPT ![val_iZone] = 0]
  /\ tape' = TapeAfterIter
  /\ IF ~disc_adj_fem
       THEN \E r \in MonitorResults :
              /\ feaLog' = feaLog \o IterEvents(0) \o
                             << <<"Monitor", 0, r>>, <<"Output_SetConvergence", TRUE>> >>
              /\ outConv' = TRUE
       ELSE /\ feaLog' = feaLog \o IterEvents(0)
            /\ outConv' = outConv
  /\ feaPc' = "done"
  /\ UNCHANGED <<IntIter, iIncrement, StopCalc, CurIter, feaLoad, intConv>>
  /\ UNCHANGED <<cfg, cfgTimeIter, val_iZone>>
  /\ UNCHANGED restOfFEA
  /\ UNCHANGED <<tapeActive, CurrentRecording, srPc, srLocal, srLog, srHist>>

\* line 1302: the test that ends the Newton-Raphson loop
BreakDirect_Mut(stop, iter) == stop

BreakDirect(stop, iter) == stop /\ (iter > 0)

\* lines 1286-1304, one pass of the loop under discrete adjoint
FEA_DirectAdjoint ==
  /\ feaPc = "direct"
  /\ IntIter < nInner_Iter
  /\ disc_adj_fem
  /\ feaLog' = feaLog \o IterEvents(IntIter) \o << <<"SetInnerIter", val_iZone, CurIter>> >>
  /\ cfgInnerIter' = [cfgInnerIter EXCEPT ![val_iZone] = CurIter]
  /\ tape' = TapeAfterIter
  /\ feaPc' = "done"
  /\ UNCHANGED <<IntIter, iIncrement, StopCalc, CurIter, feaLoad, intConv, outConv>>
  /\ UNCHANGED <<cfg, cfgTimeIter, val_iZone>>
  /\ UNCHANGED restOfFEA
  /\ UNCHANGED <<tapeActive, CurrentRecording, srPc, srLocal, srLog, srHist>>

\* lines 1286-1304, one pass of the loop of a primal run
FEA_DirectIter ==
  /\ feaPc = "direct"
  /\ IntIter < nInner_Iter
  /\ ~disc_adj_fem
  /\ \E r \in MonitorResults :
       /\ feaLog' = feaLog \o IterEvents(IntIter) \o << <<"Monitor", IntIter, r>> >>
       /\ outConv' = r
       /\ StopCalc' = r
       /\ IF BreakDirect(r, IntIter)
            THEN feaPc' = "done" /\ IntIter' = IntIter
            ELSE feaPc' = "direct" /\ IntIter' = IntIter + 1
  /\ cfgInnerIter' = [cfgInnerIter EXCEPT ![val_iZone] = IntIter]
  /\ tape' = TapeAfterIter
  /\ UNCHANGED <<iIncrement, CurIter, feaLoad, intConv>>
  /\ UNCHANGED <<cfg, cfgTimeIter, val_iZone>>
  /\ UNCHANGED restOfFEA
  /\ UNCHANGED <<tapeActive, CurrentRecording, srPc, srLocal, srLog, srHist>>

\* line 1286: the loop condition fails
FEA_DirectEnd ==
  /\ feaPc = "direct"
  /\ ~(IntIter < nInner_Iter)
  /\ feaPc' = "done"
  /\ UNCHANGED <<IntIter, iIncrement, StopCalc, CurIter, feaLog, feaLoad, intConv, outConv>>
  /\ UNCHANGED <<cfgVars, recVars>>
  /\ UNCHANGED restOfFEA

\* lines 1311-1314: the incremental branch starts from the full load
FEA_IncEntry_Mut ==
  /\ feaPc = "inc_entry"
  /\ feaLoad' = [idxIncrement |-> 0, loadIncrement |-> Frac(0, 1), ForceCoeff |-> Frac(0, 1)]
  /\ feaLog' = feaLog \o << <<"SetLoad_Increment", 0, Frac(0, 1)>>, <<"SetForceCoeff", Frac(0, 1)>> >>
  /\ IntIter' = 0
  /\ feaPc' = "trial"
  /\ UNCHANGED <<iIncrement, StopCalc, CurIter, intConv, outConv>>
  /\ UNCHANGED <<cfgVars, recVars>>
  /\ UNCHANGED restOfFEA

FEA_IncEntry ==
  /\ feaPc = "inc_entry"
  /\ feaLoad' = [idxIncrement |-> 0, loadIncrement |-> FullLoad, ForceCoeff |-> FullLoad]
  /\ feaLog' = feaLog \o << <<"SetLoad_Increment", 0, FullLoad>>, <<"SetForceCoeff", FullLoad>> >>
  /\ IntIter' = 0
  /\ feaPc' = "trial"
  /\ UNCHANGED <<iIncrement, StopCalc, CurIter, intConv, outConv>>
  /\ UNCHANGED <<cfgVars, recVars>>
  /\ UNCHANGED restOfFEA

\* line 1318: the condition of the trial loop, for (IntIter = 0; IntIter < 2; ++IntIter)
TrialRuns_Mut(val_IntIter) == val_IntIter < 2 /\ ~StopCalc

TrialRuns(val_IntIter) == val_IntIter < 2

\* lines 1318-1327: one of the two trial iterations
FEA_Trial ==
  /\ feaPc = "trial"
  /\ TrialRuns(IntIter)
  /\ \E r \in MonitorResults :
       /\ feaLog' = feaLog \o IterEvents(IntIter) \o << <<"Monitor", IntIter, r>> >>
       /\ outConv' = r
       /\ StopCalc' = r
  /\ IntIter' = IntIter + 1
  /\ cfgInnerIter' = [cfgInnerIter EXCEPT ![val_iZone] = IntIter]
  /\ tape' = TapeAfterIter
  /\ UNCHANGED <<feaPc, iIncrement, CurIter, feaLoad, intConv>>
  /\ UNCHANGED <<cfg, cfgTimeIter, val_iZone>>
  /\ UNCHANGED restOfFEA
  /\ UNCHANGED <<tapeActive, CurrentRecording, srPc, srLocal, srLog, srHist>>

\* line 1330: early return after the trial iterations
FEA_TrialEnd ==
  /\ feaPc = "trial"
  /\ ~TrialRuns(IntIter)
  /\ feaPc' = IF StopCalc THEN "done" ELSE "criteria"
  /\ feaLog' = IF StopCalc THEN Append(feaLog, <<"EarlyReturn">>) ELSE feaLog
  /\ UNCHANGED <<IntIter, iIncrement, StopCalc, CurIter, feaLoad, intConv, outConv>>
  /\ UNCHANGED <<cfgVars, recVars>>
  /\ UNCHANGED restOfFEA

\* log10(GetRes_FEM(i)) and GetIncLoad_Criteria(i), i = 0, 1, 2
LogResidualValues == {-1, 0}
IncLoad_Criteria == [i \in 0 .. 2 |-> 0]

\* lines 1334-1336
MeetCriteria(logRes) == \A i \in 0 .. 2 : logRes[i] < IncLoad_Criteria[i]

\* lines 1334-1340 and 1361-1368: the criteria decide between Newton-Raphson
\* continuation and the sequence of load increments
FEA_Criteria ==
  /\ feaPc = "criteria"
  /\ \E logRes \in [0 .. 2 -> LogResidualValues] :
       IF MeetCriteria(logRes)
         THEN /\ feaPc' = "nr"
              /\ IntIter' = 2
              /\ iIncrement' = iIncrement
              /\ feaLog' = Append(feaLog, <<"MeetCriteria", TRUE>>)
         ELSE /\ feaPc' = "inc_set"
              /\ IntIter' = IntIter
              /\ iIncrement' = 1
              /\ feaLog' = feaLog \o << <<"MeetCriteria", FALSE>>,
                                        <<"SetInitialCondition", cfgTimeIter>> >>
  /\ UNCHANGED <<StopCalc, CurIter, feaLoad, intConv, outConv>>
  /\ UNCHANGED <<cfgVars, recVars>>
  /\ UNCHANGED restOfFEA

\* lines 1344-1355: one pass of the continued Newton-Raphson loop
FEA_NRIter ==
  /\ feaPc = "nr"
  /\ IntIter < nInner_Iter
  /\ \E r \in MonitorResults :
       /\ feaLog' = feaLog \o IterEvents(IntIter) \o << <<"Monitor", IntIter, r>> >>
       /\ outConv' = r
       /\ StopCalc' = r
       /\ IF r THEN feaPc' = "done" /\ IntIter' = IntIter
               ELSE feaPc' = "nr" /\ IntIter' = IntIter + 1
  /\ cfgInnerIter' = [cfgInnerIter EXCEPT ![val_iZone] = IntIter]
  /\ tape' = TapeAfterIter
  /\ UNCHANGED <<iIncrement, CurIter, feaLoad, intConv>>
  /\ UNCHANGED <<cfg, cfgTimeIter, val_iZone>>
  /\ UNCHANGED restOfFEA
  /\ UNCHANGED <<tapeActive, CurrentRecording, srPc, srLocal, srLog, srHist>>

\* line 1344: the loop condition fails
FEA_NREnd ==
  /\ feaPc = "nr"
  /\ ~(IntIter < nInner_Iter)
  /\ feaPc' = "done"
  /\ UNCHANGED <<IntIter, iIncrement, StopCalc, CurIter, feaLog, feaLoad, intConv, outConv>>
  /\ UNCHANGED <<cfgVars, recVars>>
  /\ UNCHANGED restOfFEA

\* lines 1371-1383: the next load increment is set
FEA_IncSet ==
  /\ feaPc = "inc_set"
  /\ iIncrement <= nIncrements
  /\ feaLoad' = [feaLoad EXCEPT !.idxIncrement = iIncrement,
                                !.loadIncrement = LoadIncrementOf(iIncrement, nIncrements)]
  /\ outConv' = FALSE
  /\ feaLog' = feaLog \o << <<"SetLoad_Increment", iIncrement,
                              LoadIncrementOf(iIncrement, nIncrements)>>,
                            <<"Output_SetConvergence", FALSE>> >>
  /\ IntIter' = 0
  /\ feaPc' = "inc_loop"
  /\ UNCHANGED <<iIncrement, StopCalc, CurIter, intConv>>
  /\ UNCHANGED <<cfgVars, recVars>>
  /\ UNCHANGED restOfFEA

\* line 1397: the test that ends the Newton-Raphson loop of an increment
BreakIncrement_Mut(stop, iter) == stop

BreakIncrement(stop, iter) == stop /\ (iter > 0)

\* lines 1387-1399: one pass of the Newton-Raphson loop of an increment
FEA_IncIter ==
  /\ feaPc = "inc_loop"
  /\ IntIter < nInner_Iter
  /\ \E r \in MonitorResults :
       /\ feaLog' = feaLog \o IterEvents(IntIter) \o << <<"Monitor", IntIter, r>> >>
       /\ outConv' = r
       /\ StopCalc' = r
       /\ IF BreakIncrement(r, IntIter)
            THEN feaPc' = "inc_set" /\ iIncrement' = iIncrement + 1 /\ IntIter' = IntIter
            ELSE feaPc' = "inc_loop" /\ iIncrement' = iIncrement /\ IntIter' = IntIter + 1
  /\ cfgInnerIter' = [cfgInnerIter EXCEPT ![val_iZone] = IntIter]
  /\ tape' = TapeAfterIter
  /\ UNCHANGED <<CurIter, feaLoad, intConv>>
  /\ UNCHANGED <<cfg, cfgTimeIter, val_iZone>>
  /\ UNCHANGED restOfFEA
  /\ UNCHANGED <<tapeActive, CurrentRecording, srPc, srLocal, srLog, srHist>>

\* line 1387: the loop condition fails, the next increment follows
FEA_IncIterEnd ==
  /\ feaPc = "inc_loop"
  /\ ~(IntIter < nInner_Iter)
  /\ feaPc' = "inc_set"
  /\ iIncrement' = iIncrement + 1
  /\ UNCHANGED <<IntIter, StopCalc, CurIter, feaLog, feaLoad, intConv, outConv>>
  /\ UNCHANGED <<cfgVars, recVars>>
  /\ UNCHANGED restOfFEA

\* lines 1371 and 1402-1403: after the last increment
FEA_IncExit ==
  /\ feaPc = "inc_set"
  /\ ~(iIncrement <= nIncrements)
  /\ feaLoad' = [feaLoad EXCEPT !.idxIncrement = 0, !.loadIncrement = FullLoad]
  /\ feaLog' = Append(feaLog, <<"SetLoad_Increment", 0, FullLoad>>)
  /\ feaPc' = "done"
  /\ UNCHANGED <<IntIter, iIncrement, StopCalc, CurIter, intConv, outConv>>
  /\ UNCHANGED <<cfgVars, recVars>>
  /\ UNCHANGED restOfFEA

(***************************************************************************)
(* The AD tape and the recording controller at rest.                       *)
(***************************************************************************)
RecAtRest ==
  /\ tapeActive = FALSE
  /\ tape = <<>>
  /\ CurrentRecording = "NONE"
  /\ srPc = "idle"
  /\ srLocal = [kind |-> "NONE", InnerIter |-> 0, TimeIter |-> 0, DirectTimeIter |-> 0]
  /\ srLog = <<>>
  /\ srHist = [calls |-> 0, prevKind |-> "NONE", prevTape |-> <<>>,
               entryStored |-> "NONE", entryTime |-> 0, entryInner |-> cfgInnerIter,
               starts |-> 0, stops |-> 0, nested |-> FALSE]

FEAAtRest ==
  /\ feaPc = "idle"
  /\ IntIter = 0
  /\ iIncrement = 0
  /\ StopCalc = FALSE
  /\ CurIter = 0
  /\ feaLog = <<>>
  /\ feaLoad = [idxIncrement |-> 0, loadIncrement |-> FullLoad, ForceCoeff |-> FullLoad]
  /\ intConv = [FEA_SOL |-> FALSE, FLOW_SOL |-> FALSE, HEAT_SOL |-> FALSE,
                TURB_SOL |-> FALSE, TRANS_SOL |-> FALSE, ADJFLOW_SOL |-> FALSE]
  /\ outConv = FALSE

SolveAtRest ==
  /\ solPc = "idle"
  /\ solKind = "Fluid"
  /\ val_iInst = 0
  /\ Inner_Iter = 0
  /\ solStopCalc = FALSE
  /\ solLog = <<>>
  /\ WallFunction_Start_Iter = 0

LoadAtRest ==
  /\ ldSol = <<>>
  /\ ldNodes = <<>>
  /\ ldLog = <<>>
  /\ ldCall = [loader |-> "none", val_DirectIter |-> 0]

HistAtRest ==
  /\ hsSol = <<>>
  /\ hsGeo = <<>>
  /\ hsLog = <<>>
  /\ hsCall = [op |-> "none"]

GustAtRest ==
  /\ gustPc = "idle"
  /\ gustNodes = <<>>
  /\ gustFile = <<>>
  /\ gustVortex = [nVortex |-> 0, x0 |-> <<>>, opened |-> FALSE, error |-> "none"]
  /\ gustPos = [iMGlevel |-> 0, iPoint |-> 0]

OthersAtRest == HistAtRest /\ GustAtRest

(***************************************************************************)
(* Specification of CFEAIteration::Iterate called by a primal driver       *)
(* (CFEAIteration::Solve) any number of times.                             *)
(***************************************************************************)
InitFEA ==
  /\ cfg \in ConfigFEA
  /\ cfgInnerIter \in [Zones -> {EntryInnerIter}]
  /\ cfgTimeIter = 0
  /\ val_iZone \in Zones
  /\ FEAAtRest
  /\ RecAtRest
  /\ SolveAtRest
  /\ LoadAtRest
  /\ OthersAtRest

\* CFEAIteration::Solve, lines 1551-1558: Iterate, then the structural
\* convergence is set to false
FEA_Solve ==
  /\ feaPc = "idle"
  /\ FEA_Invoke
  /\ UNCHANGED <<cfgVars, recVars>>
  /\ UNCHANGED restOfFEA

FEA_SolveReturn ==
  /\ feaPc = "done"
  /\ feaPc' = "idle"
  /\ intConv' = [intConv EXCEPT !.FEA_SOL = FALSE]
  /\ UNCHANGED <<IntIter, iIncrement, StopCalc, CurIter, feaLog, feaLoad, outConv>>
  /\ UNCHANGED <<cfgVars, recVars>>
  /\ UNCHANGED restOfFEA

NextFEA ==
  \/ FEA_Solve
  \/ FEA_Entry
  \/ FEA_Linear
  \/ FEA_DirectAdjoint
  \/ FEA_DirectIter
  \/ FEA_DirectEnd
  \/ FEA_IncEntry
  \/ FEA_Trial
  \/ FEA_TrialEnd
  \/ FEA_Criteria
  \/ FEA_NRIter
  \/ FEA_NREnd
  \/ FEA_IncSet
  \/ FEA_IncIter
  \/ FEA_IncIterEnd
  \/ FEA_IncExit
  \/ FEA_SolveReturn

SpecFEA == InitFEA /\ [][NextFEA]_vars

(***************************************************************************)
(* CFluidIteration::Solve and CHeatIteration::Solve.  CHeatIteration       *)
(* inherits Monitor and Output from CFluidIteration and CIteration.        *)
(***************************************************************************)
Instances == 0 .. (nInst - 1)
INST_0 == 0

steady_Mut == TRUE

steady == ~cfg.Time_Domain
multizone == cfg.Multizone_Problem
singlezone == ~cfg.Multizone_Problem

ConfigSolve ==
  { c \in [ nInner_Iter : 0 .. MaxInnerIter,
            Time_Domain : BOOLEAN,
            Multizone_Problem : BOOLEAN,
            HistoryOutput : BOOLEAN,
            Fixed_CL_Mode : BOOLEAN,
            Wall_Functions : BOOLEAN,
            Restart : BOOLEAN,
            Discrete_Adjoint : {FALSE} ] :
      \* the history output runs for multizone problems and the single-zone driver
      /\ c.Multizone_Problem => c.HistoryOutput
      \* Restart is read by the wall-function rule only
      /\ c.Restart => c.Wall_Functions }

\* the physics whose integration Solve resets: FLOW_SOL or HEAT_SOL
SolvedPhysics(kind) == IF kind = "Fluid" THEN "FLOW_SOL" ELSE "HEAT_SOL"

\* CFluidIteration::Monitor, lines 607-618: the convergence flag of the output
\* after the history output, overridden by the fixed-CL convergence
ConvergenceResults ==
  IF cfg.Fixed_CL_Mode THEN BOOLEAN ELSE MonitorResults

\* lines 616-623: the wall-function rule applies to a converged result
WallFunctionRule_Mut(stop, inner) ==
  /\ stop
  /\ cfg.Wall_Functions
  /\ ~cfg.Discrete_Adjoint
  /\ ~cfg.Restart

WallFunctionRule(stop, inner) ==
  /\ stop
  /\ cfg.Wall_Functions
  /\ ~cfg.Discrete_Adjoint
  /\ inner <= WallFunction_Start_Iter
  /\ ~cfg.Restart

\* line 701: the condition of the inner loop
InnerLoopRuns_Mut(iter) == iter <= nInner_Iter

InnerLoopRuns(iter) == iter < nInner_Iter

\* line 720: the test that ends the inner loop
BreakSolve_Mut(stop, iter) == stop /\ (iter > 0)

BreakSolve(stop, iter) == stop

\* Solve is called for (val_iZone, val_iInst); lines 683-696 and 1148-1157
SOL_Call ==
  /\ solPc = "idle"
  /\ \E kind \in {"Fluid", "Heat"}, inst \in Instances :
       /\ solKind' = kind
       /\ val_iInst' = inst
       /\ solLog' = IF kind = "Fluid" THEN << <<"Preprocess", INST_0, 0, FALSE>> >> ELSE <<>>
  /\ Inner_Iter' = 0
  /\ solStopCalc' = FALSE
  /\ solPc' = "loop"
  /\ UNCHANGED WallFunction_Start_Iter
  /\ UNCHANGED <<cfgVars, feaVars, recVars, ldVars, otherVars>>

\* lines 701-721 and 1162-1182: one pass of the inner loop
SOL_Pass ==
  /\ solPc = "loop"
  /\ InnerLoopRuns(Inner_Iter)
  /\ cfgInnerIter' = [cfgInnerIter EXCEPT ![val_iZone] = Inner_Iter]
  /\ \E h \in MonitorResults, c \in ConvergenceResults :
       LET raw == IF cfg.Fixed_CL_Mode THEN c ELSE h
           r == IF WallFunctionRule(raw, Inner_Iter) THEN FALSE ELSE raw
       IN /\ (~cfg.Fixed_CL_Mode) => c = h
          /\ outConv' = h
          /\ WallFunction_Start_Iter' =
               IF WallFunctionRule(raw, Inner_Iter) THEN Inner_Iter ELSE WallFunction_Start_Iter
          /\ solStopCalc' = r
          /\ solLog' = solLog \o
               << <<"SetInnerIter", val_iZone, Inner_Iter, FALSE>>,
                  <<"Iterate", INST_0, Inner_Iter, FALSE>> >> \o
               (IF WallFunctionRule(raw, Inner_Iter)
                  THEN << <<"SetWallFunction_Start_Iter", val_iZone, Inner_Iter, raw>> >>
                  ELSE <<>>) \o
               << <<"Monitor", INST_0, Inner_Iter, r>> >> \o
               (IF singlezone /\ steady
                  THEN << <<"Output", val_iInst, Inner_Iter, r>> >> ELSE <<>>)
          /\ IF BreakSolve(r, Inner_Iter)
               THEN solPc' = "after" /\ Inner_Iter' = Inner_Iter
               ELSE solPc' = "loop" /\ Inner_Iter' = Inner_Iter + 1
  /\ UNCHANGED <<solKind, val_iInst>>
  /\ UNCHANGED <<cfg, cfgTimeIter, val_iZone>>
  /\ UNCHANGED <<feaPc, IntIter, iIncrement, StopCalc, CurIter, feaLog, feaLoad, intConv>>
  /\ UNCHANGED <<recVars, ldVars, otherVars>>

\* lines 701 and 1162: the loop condition fails
SOL_LoopEnd ==
  /\ solPc = "loop"
  /\ ~InnerLoopRuns(Inner_Iter)
  /\ solPc' = "after"
  /\ UNCHANGED <<solKind, val_iInst, Inner_Iter, solStopCalc, solLog, WallFunction_Start_Iter>>
  /\ UNCHANGED <<cfgVars, feaVars, recVars, ldVars, otherVars>>

\* lines 723-731 and 1184-1192: output and convergence reset of a multizone
\* steady problem, then Solve returns
SOL_Return ==
  /\ solPc = "after"
  /\ IF multizone /\ steady
       THEN /\ solLog' = solLog \o
                 << <<"OutputOuter", val_iInst, 0, solStopCalc>>,
                    <<"SetConvergence", INST_0, 0, FALSE>> >>
            /\ intConv' = [intConv EXCEPT ![SolvedPhysics(solKind)] = FALSE]
       ELSE UNCHANGED <<solLog, intConv>>
  /\ solPc' = "idle"
  /\ UNCHANGED <<solKind, val_iInst, Inner_Iter, solStopCalc, WallFunction_Start_Iter>>
  /\ UNCHANGED <<feaPc, IntIter, iIncrement, StopCalc, CurIter, feaLog, feaLoad, outConv>>
  /\ UNCHANGED <<cfgVars, recVars, ldVars, otherVars>>

\* the flow or heat integration converges between two calls of Solve
\* (CIntegration::Convergence_Monitoring of the driver's earlier steps)
SOL_Converged ==
  /\ solPc = "idle"
  /\ ~intConv[SolvedPhysics(solKind)]
  /\ intConv' = [intConv EXCEPT ![SolvedPhysics(solKind)] = TRUE]
  /\ UNCHANGED <<feaPc, IntIter, iIncrement, StopCalc, CurIter, feaLog, feaLoad, outConv>>
  /\ UNCHANGED <<cfgVars, recVars, solVars, ldVars, otherVars>>

InitSolve ==
  /\ cfg \in ConfigSolve
  /\ cfgInnerIter = [z \in Zones |-> EntryInnerIter + z]
  /\ cfgTimeIter = 0
  /\ val_iZone \in Zones
  /\ FEAAtRest
  /\ RecAtRest
  /\ solPc = "idle"
  /\ solKind = "Fluid"
  /\ val_iInst = 0
  /\ Inner_Iter = 0
  /\ solStopCalc = FALSE
  /\ solLog = <<>>
  /\ WallFunction_Start_Iter \in 0 .. MaxInnerIter
  /\ LoadAtRest
  /\ OthersAtRest

NextSolve ==
  \/ SOL_Call
  \/ SOL_Pass
  \/ SOL_LoopEnd
  \/ SOL_Return
  \/ SOL_Converged

SpecSolve == InitSolve /\ [][NextSolve]_vars

(***************************************************************************)
(* The restart loaders CDiscAdjFluidIteration::LoadUnsteady_Solution,      *)
(* CDiscAdjHeatIteration::LoadUnsteady_Solution and                        *)
(* CDiscAdjFEAIteration::LoadDynamic_Solution.  A solution is known by     *)
(* where it came from: <<"initial", 0>>, <<"restart", k>>, <<"freestream", *)
(* 0>>, or <<"zero", 0>> for a nodal value set to 0.0.  A call of the log   *)
(* is <<operation, solver, iMesh or iPoint, val_DirectIter or iVar>>.      *)
(***************************************************************************)
MESH_0 == 0
nVar == 2

ConfigLoad ==
  [ turbulent : BOOLEAN,
    Weakly_Coupled_Heat : BOOLEAN,
    nMGLevels : 0 .. MaxMGLevels,
    nPoint : 1 .. MaxPoint ]

Levels == 0 .. cfg.nMGLevels
Points == 0 .. (cfg.nPoint - 1)
DirectIters == (0 - 2) .. MaxDirectIter

Initial == <<"initial", 0>>
FreeStream == <<"freestream", 0>>
Zero == <<"zero", 0>>

\* CSolver::LoadRestart of the fine-grid solver: the solution of direct
\* iteration k on the fine grid, interpolated to the coarse levels
LoadRestart(sol, physics, k) ==
  [sol EXCEPT ![physics] = [l \in DOMAIN sol[physics] |-> <<"restart", k>>]]

\* lines 2029, 2473, 3078: a solution file is read
ReadsRestart_Mut(val_DirectIter) == val_DirectIter >= -1

ReadsRestart(val_DirectIter) == val_DirectIter >= 0

\* lines 2041 and 3092: for (iMesh = 0; iMesh <= nMGLevels; iMesh++), the
\* free stream is set for the physics in set, level by level
RECURSIVE SetFreeStreamFrom(_, _, _)
SetFreeStreamFrom(sol, set, iMesh) ==
  IF iMesh <= cfg.nMGLevels
    THEN SetFreeStreamFrom([ph \in DOMAIN sol |->
                              IF ph \in set THEN [sol[ph] EXCEPT ![iMesh] = FreeStream]
                                            ELSE sol[ph]],
                           set, iMesh + 1)
    ELSE sol

\* lines 2042-2051 and 3094-3098: one pass of the loop over the levels
RECURSIVE SolverCalls(_, _)
SolverCalls(order, iMesh) ==
  IF order = <<>>
    THEN <<>>
    ELSE << <<"SetFreeStream_Solution", Head(order), iMesh, 0>>,
            <<IF Head(order) = "FLOW_SOL" THEN "Preprocessing" ELSE "Postprocessing",
              Head(order), iMesh, 0>> >>
           \o SolverCalls(Tail(order), iMesh)

RECURSIVE FreeStreamCalls(_, _)
FreeStreamCalls(order, iMesh) ==
  IF iMesh <= cfg.nMGLevels
    THEN SolverCalls(order, iMesh) \o FreeStreamCalls(order, iMesh + 1)
    ELSE <<>>

\* the physics a fluid loader handles, in the order of the code
FluidPhysics ==
  <<"FLOW_SOL">> \o (IF cfg.turbulent THEN <<"TURB_SOL">> ELSE <<>>)
                 \o (IF cfg.Weakly_Coupled_Heat THEN <<"HEAT_SOL">> ELSE <<>>)

Range(f) == {f[i] : i \in DOMAIN f}

\* CDiscAdjFluidIteration::LoadUnsteady_Solution, lines 2018-2054
LoadUnsteady_Solution_Fluid ==
  \E k \in DirectIters :
    /\ ldCall' = [loader |-> "Fluid", val_DirectIter |-> k]
    /\ IF ReadsRestart(k)
         THEN /\ ldSol' = LET s1 == LoadRestart(ldSol, "FLOW_SOL", k)
                              s2 == IF cfg.turbulent THEN LoadRestart(s1, "TURB_SOL", k) ELSE s1
                          IN IF cfg.Weakly_Coupled_Heat THEN LoadRestart(s2, "HEAT_SOL", k) ELSE s2
              /\ ldLog' = [i \in 1 .. Len(FluidPhysics) |-> <<"LoadRestart", FluidPhysics[i], MESH_0, k>>]
         ELSE /\ ldSol' = SetFreeStreamFrom(ldSol, Range(FluidPhysics), 0)
              /\ ldLog' = FreeStreamCalls(FluidPhysics, 0)
    /\ UNCHANGED ldNodes
    /\ UNCHANGED <<cfgVars, feaVars, recVars, solVars, otherVars>>

\* CDiscAdjHeatIteration::LoadUnsteady_Solution, lines 3070-3101
LoadUnsteady_Solution_Heat ==
  \E k \in DirectIters :
    /\ ldCall' = [loader |-> "Heat", val_DirectIter |-> k]
    /\ IF ReadsRestart(k)
         THEN /\ ldSol' = LoadRestart(ldSol, "HEAT_SOL", k)
              /\ ldLog' = << <<"LoadRestart", "HEAT_SOL", MESH_0, k>> >>
         ELSE /\ ldSol' = SetFreeStreamFrom(ldSol, {"HEAT_SOL"}, 0)
              /\ ldLog' = FreeStreamCalls(<<"HEAT_SOL">>, 0)
    /\ UNCHANGED ldNodes
    /\ UNCHANGED <<cfgVars, feaVars, recVars, solVars, otherVars>>

\* lines 2482-2488: SetSolution, SetSolution_Accel, SetSolution_Vel (iPoint, iVar, 0.0)
ZeroNodes == [iPoint \in Points |-> [iVar \in 0 .. (nVar - 1) |->
                [Solution |-> Zero, Solution_Accel |-> Zero, Solution_Vel |-> Zero]]]

RECURSIVE ZeroCalls(_, _)
ZeroCalls(iPoint, iVar) ==
  IF iPoint >= cfg.nPoint THEN <<>>
  ELSE IF iVar >= nVar THEN ZeroCalls(iPoint + 1, 0)
  ELSE << <<"SetSolution", "FEA_SOL", iPoint, iVar>>,
          <<"SetSolution_Accel", "FEA_SOL", iPoint, iVar>>,
          <<"SetSolution_Vel", "FEA_SOL", iPoint, iVar>> >>
         \o ZeroCalls(iPoint, iVar + 1)

\* CFEASolver::LoadRestart: displacement, velocity and acceleration of
\* direct iteration k at every node
RestartNodes(k) == [iPoint \in Points |-> [iVar \in 0 .. (nVar - 1) |->
                [Solution |-> <<"restart", k>>, Solution_Accel |-> <<"restart", k>>,
                 Solution_Vel |-> <<"restart", k>>]]]

\* CDiscAdjFEAIteration::LoadDynamic_Solution, lines 2463-2490
LoadDynamic_Solution ==
  \E k \in DirectIters :
    /\ ldCall' = [loader |-> "FEA", val_DirectIter |-> k]
    /\ IF ReadsRestart(k)
         THEN /\ ldNodes' = RestartNodes(k)
              /\ ldLog' = << <<"LoadRestart", "FEA_SOL", MESH_0, k>> >>
         ELSE /\ ldNodes' = ZeroNodes
              /\ ldLog' = ZeroCalls(0, 0)
    /\ UNCHANGED ldSol
    /\ UNCHANGED <<cfgVars, feaVars, recVars, solVars, otherVars>>

InitLoad ==
  /\ cfg \in ConfigLoad
  /\ cfgInnerIter = [z \in Zones |-> EntryInnerIter + z]
  /\ cfgTimeIter = 0
  /\ val_iZone = ZONE_0
  /\ FEAAtRest
  /\ RecAtRest
  /\ SolveAtRest
  /\ ldSol = [ph \in {"FLOW_SOL", "TURB_SOL", "HEAT_SOL"} |-> [l \in Levels |-> Initial]]
  /\ ldNodes = [iPoint \in Points |-> [iVar \in 0 .. (nVar - 1) |->
                  [Solution |-> Initial, Solution_Accel |-> Initial, Solution_Vel |-> Initial]]]
  /\ ldLog = <<>>
  /\ ldCall = [loader |-> "none", val_DirectIter |-> 0]
  /\ OthersAtRest

NextLoad ==
  \/ LoadUnsteady_Solution_Fluid
  \/ LoadUnsteady_Solution_Heat
  \/ LoadDynamic_Solution

SpecLoad == InitLoad /\ [][NextLoad]_vars

(***************************************************************************)
(* Solution history of the solvers and CFluidIteration::Update,            *)
(* CHeatIteration::Update.  The nodes of one solver on one level hold the  *)
(* arrays Solution, Solution_time_n, Solution_time_n1 and Solution_Old;    *)
(* an array is known by the state it holds: <<"initial", 0>>,              *)
(* <<"direct", t>> (the primal solution of time step t), <<"restart", k>>  *)
(* or <<"freestream", 0>>.                                                  *)
(***************************************************************************)
Solvers == Zones \X Instances
Physics == {"FLOW_SOL", "TURB_SOL", "TRANS_SOL", "HEAT_SOL"}

TimeMarching == {"STEADY", "TIME_STEPPING", "DT_STEPPING_1ST", "DT_STEPPING_2ND"}
dual_time_1st == cfg.Time_Marching = "DT_STEPPING_1ST"
dual_time_2nd == cfg.Time_Marching = "DT_STEPPING_2ND"
dual_time == dual_time_1st \/ dual_time_2nd

\* lines 563-566: Kind_Solver is one of the RANS solvers
IsRANS(kind_solver) ==
  kind_solver \in {"RANS", "DISC_ADJ_RANS", "INC_RANS", "DISC_ADJ_INC_RANS"}

\* CVariable::Set_Solution_time_n, Set_Solution_time_n1, Set_OldSolution:
\* the array is copied, value by value
Set_Solution_time_n(nodes) == [nodes EXCEPT !.Solution_time_n = nodes.Solution]
Set_Solution_time_n1(nodes) == [nodes EXCEPT !.Solution_time_n1 = nodes.Solution_time_n]
Set_OldSolution(nodes) == [nodes EXCEPT !.Solution_Old = nodes.Solution]

\* CIntegration::SetDualTime_Solver: time n becomes time n-1, the current
\* solution becomes time n
SetDualTime_Solver(nodes) == Set_Solution_time_n(Set_Solution_time_n1(nodes))

InitialNodes ==
  [Solution |-> Initial, Solution_time_n |-> Initial,
   Solution_time_n1 |-> Initial, Solution_Old |-> Initial]

InitialGeometry ==
  [Coord |-> Initial, Coord_n |-> Initial, Coord_n1 |-> Initial, Coord_Old |-> Initial]

ConfigUpdate ==
  [ Time_Marching : TimeMarching,
    nMGLevels : 0 .. MaxMGLevels,
    Kind_Solver : {"EULER", "RANS", "INC_RANS"},
    Kind_Trans_Model : {"NO_TRANS_MODEL", "LM"},
    Deform_Mesh : BOOLEAN ]

\* the solver the running operation was called for
ThisSolver == <<val_iZone, val_iInst>>

\* lines 545-546 and 1211-1212: the dual time stepping strategy
UpdatesDualTime_Mut == dual_time_1st

UpdatesDualTime == dual_time_1st \/ dual_time_2nd

\* the levels on which Update shifts the history of a physics: all of them
\* for the flow and heat solvers (lines 550, 1216), MESH_0 for the
\* turbulence and transition models (lines 567, 574)
UpdatedLevels_Mut(kind, ph) == IF UpdatesDualTime THEN Levels ELSE {}

UpdatedLevels(kind, ph) ==
  IF ~UpdatesDualTime THEN {}
  ELSE IF kind = "Fluid"
    THEN CASE ph = "FLOW_SOL" -> Levels
           [] ph = "TURB_SOL" -> IF IsRANS(cfg.Kind_Solver) THEN {MESH_0} ELSE {}
           [] ph = "TRANS_SOL" -> IF cfg.Kind_Trans_Model = "LM" THEN {MESH_0} ELSE {}
           [] OTHER -> {}
    ELSE IF ph = "HEAT_SOL" THEN Levels ELSE {}

\* lines 550-553 and 1216-1219: SetDualTime_Solver and SetConvergence(false)
\* for every level
RECURSIVE DualTimeCalls(_, _)
DualTimeCalls(ph, iMesh) ==
  IF iMesh <= cfg.nMGLevels
    THEN << <<"SetDualTime_Solver", ph, iMesh>>, <<"SetConvergence", ph, iMesh>> >>
           \o DualTimeCalls(ph, iMesh + 1)
    ELSE <<>>

UpdateCalls(kind) ==
  IF ~UpdatesDualTime THEN <<>>
  ELSE IF kind = "Fluid"
    THEN DualTimeCalls("FLOW_SOL", 0)
           \o (IF cfg.Deform_Mesh THEN << <<"SetDualTime_Mesh", "MESH_SOL", MESH_0>> >> ELSE <<>>)
           \o (IF IsRANS(cfg.Kind_Solver)
                 THEN << <<"SetDualTime_Solver", "TURB_SOL", MESH_0>>,
                         <<"SetConvergence", "TURB_SOL", MESH_0>> >> ELSE <<>>)
           \o (IF cfg.Kind_Trans_Model = "LM"
                 THEN << <<"SetDualTime_Solver", "TRANS_SOL", MESH_0>>,
                         <<"SetConvergence", "TRANS_SOL", MESH_0>> >> ELSE <<>>)
    ELSE DualTimeCalls("HEAT_SOL", 0)

\* the physics one Iterate of the controller advances
SolvedBy(kind) ==
  IF kind = "Fluid"
    THEN {"FLOW_SOL"} \cup (IF IsRANS(cfg.Kind_Solver) THEN {"TURB_SOL"} ELSE {})
                      \cup (IF cfg.Kind_Trans_Model = "LM" THEN {"TRANS_SOL"} ELSE {})
    ELSE {"HEAT_SOL"}

\* Iterate of the time step: the solved physics hold the solution of the
\* current time step on every level
UPD_Solve ==
  /\ hsCall.phase = "solve"
  /\ hsSol' = [hsSol EXCEPT ![ThisSolver] =
                 [ph \in Physics |-> [l \in Levels |->
                    IF ph \in SolvedBy(hsCall.kind)
                      THEN [hsSol[ThisSolver][ph][l] EXCEPT !.Solution = <<"direct", cfgTimeIter>>]
                      ELSE hsSol[ThisSolver][ph][l]]]]
  /\ hsCall' = [hsCall EXCEPT !.phase = "update", !.later = (hsCall.op = "Update")]
  /\ UNCHANGED <<hsGeo, hsLog>>
  /\ UNCHANGED <<cfgVars, feaVars, recVars, solVars, ldVars, gustVars>>

\* CFluidIteration::Update, lines 529-577, and CHeatIteration::Update,
\* lines 1195-1221
UPD_Update ==
  /\ hsCall.phase = "update"
  /\ hsSol' = [hsSol EXCEPT ![ThisSolver] =
                 [ph \in Physics |-> [l \in Levels |->
                    IF l \in UpdatedLevels(hsCall.kind, ph)
                      THEN SetDualTime_Solver(hsSol[ThisSolver][ph][l])
                      ELSE hsSol[ThisSolver][ph][l]]]]
  /\ hsLog' = UpdateCalls(hsCall.kind)
  /\ intConv' = [ph \in DOMAIN intConv |->
                   IF UpdatesDualTime /\ ph \in SolvedBy(hsCall.kind)
                     THEN FALSE ELSE intConv[ph]]
  /\ hsCall' = [hsCall EXCEPT !.phase = "advance", !.op = "Update",
                              !.prev = hsSol[ThisSolver], !.conv = intConv,
                              !.later = FALSE]
  /\ UNCHANGED hsGeo
  /\ UNCHANGED <<feaPc, IntIter, iIncrement, StopCalc, CurIter, feaLog, feaLoad, outConv>>
  /\ UNCHANGED <<cfgVars, recVars, solVars, ldVars, gustVars>>

\* the driver moves to the next time step; the integration of the step may
\* converge
UPD_Advance ==
  /\ hsCall.phase = "advance"
  /\ cfgTimeIter < MaxTimeIter
  /\ cfgTimeIter' = cfgTimeIter + 1
  /\ \E c \in [SolvedBy(hsCall.kind) -> BOOLEAN] :
       intConv' = [ph \in DOMAIN intConv |->
                     IF ph \in SolvedBy(hsCall.kind) THEN c[ph] ELSE intConv[ph]]
  /\ hsCall' = [hsCall EXCEPT !.phase = "solve"]
  /\ UNCHANGED <<hsSol, hsGeo, hsLog>>
  /\ UNCHANGED <<cfg, cfgInnerIter, val_iZone>>
  /\ UNCHANGED <<feaPc, IntIter, iIncrement, StopCalc, CurIter, feaLog, feaLoad, outConv>>
  /\ UNCHANGED <<recVars, solVars, ldVars, gustVars>>

InitUpdate ==
  /\ cfg \in ConfigUpdate
  /\ cfgInnerIter = [z \in Zones |-> EntryInnerIter + z]
  /\ cfgTimeIter = 0
  /\ val_iZone \in Zones
  /\ FEAAtRest
  /\ RecAtRest
  /\ solPc = "idle"
  /\ solKind = "Fluid"
  /\ val_iInst \in Instances
  /\ Inner_Iter = 0
  /\ solStopCalc = FALSE
  /\ solLog = <<>>
  /\ WallFunction_Start_Iter = 0
  /\ LoadAtRest
  /\ GustAtRest
  /\ hsSol = [s \in Solvers |-> [ph \in Physics |-> [l \in Levels |-> InitialNodes]]]
  /\ hsGeo = [s \in Solvers |-> [l \in Levels |-> InitialGeometry]]
  /\ hsLog = <<>>
  /\ \E kind \in {"Fluid", "Heat"} :
       hsCall = [op |-> "none", kind |-> kind, phase |-> "solve",
                 prev |-> hsSol[ThisSolver], conv |-> intConv, later |-> FALSE]

NextUpdate ==
  \/ UPD_Solve
  \/ UPD_Update
  \/ UPD_Advance

SpecUpdate == InitUpdate /\ [][NextUpdate]_vars

(***************************************************************************)
(* CFluidIteration::SetWind_GustField and InitializeVortexDistribution.    *)
(* Coordinates, times and lengths are integers and x_gust is a reduced     *)
(* fraction.  A gust component is <<shape, amplitude, p, q>>: the shape    *)
(* evaluated at x_gust = p/q times the amplitude; <<"const", a, 0, 1>> is  *)
(* the number a.  A grid velocity component is a number and the gust       *)
(* components subtracted from it.                                          *)
(***************************************************************************)
nDim == 2
Dims == 0 .. (nDim - 1)

GustTypes == {"NONE", "TOP_HAT", "SINE", "ONE_M_COSINE", "EOG", "VORTEX"}

Number(a) == <<"const", a, 0, 1>>
Untouched == <<"initial", 0, 0, 1>>

\* the lines a vortex file may hold after its header
DataLines == {"", " ", "0.0 1.0 2.0 0.1"}

RECURSIVE LinesUpTo(_)
LinesUpTo(k) ==
  IF k = 0 THEN {<<>>}
  ELSE LinesUpTo(k - 1) \cup
       {Append(f, l) : f \in {g \in LinesUpTo(k - 1) : Len(g) = k - 1}, l \in DataLines}

VortexFiles ==
  {[present |-> FALSE, lines |-> <<>>], [present |-> TRUE, lines |-> <<>>]}
    \cup {[present |-> TRUE, lines |-> <<"x y strength core">> \o f] :
            f \in LinesUpTo(MaxFileLines - 1)}

ConfigGust ==
  [ Gust_Type : GustTypes,
    Gust_Begin_Loc : {0},
    Gust_WaveLength : (0 - 1) .. MaxWaveLength,
    Gust_Begin_Time : {1},
    Gust_Ampl : {2},
    Gust_Periods : {1},
    Gust_Dir : Dims,
    Kind_GridMovement : {"GUST", "RIGID_MOTION"},
    Delta_UnstTime : {1},
    Velocity_Inf : {1},
    nMGLevels : 0 .. MaxMGLevels,
    nPoint : 1 .. MaxPoint ]

\* lines 767-769: Physical_t = TimeIter*Physical_dt
Physical_t == cfgTimeIter * cfg.Delta_UnstTime

\* line 823: x_gust = (x - xbegin - Uinf*(Physical_t-tbegin))/L
GustCoordinate(x) ==
  Frac(x - cfg.Gust_Begin_Loc - cfg.Velocity_Inf * (Physical_t - cfg.Gust_Begin_Time),
       cfg.Gust_WaveLength)

\* lines 830, 838, 850, 862: x_gust > 0 && x_gust < n
InGustRegion_Mut(x_gust) == x_gust[1] >= 0 /\ x_gust[1] <= cfg.Gust_Periods * x_gust[2]

InGustRegion(x_gust) == x_gust[1] > 0 /\ x_gust[1] < cfg.Gust_Periods * x_gust[2]

\* line 819: the gust is applied from tbegin on
GustBegun == Physical_t >= cfg.Gust_Begin_Time

\* lines 814-877: the gust vector of a point with x-coordinate x
GustAt(x) ==
  LET none == [iDim \in Dims |-> Number(0)]
      x_gust == GustCoordinate(x)
      shaped(shape) ==
        IF InGustRegion(x_gust)
          THEN [none EXCEPT ![cfg.Gust_Dir] = <<shape, cfg.Gust_Ampl, x_gust[1], x_gust[2]>>]
          ELSE none
  IN IF ~GustBegun THEN none
     ELSE CASE cfg.Gust_Type = "TOP_HAT" ->
                 IF InGustRegion(x_gust)
                   THEN [none EXCEPT ![cfg.Gust_Dir] = Number(cfg.Gust_Ampl)]
                   ELSE none
            [] cfg.Gust_Type = "SINE" -> shaped("sine")
            [] cfg.Gust_Type = "ONE_M_COSINE" -> shaped("one_m_cosine")
            [] cfg.Gust_Type = "EOG" -> shaped("eog")
            [] cfg.Gust_Type = "VORTEX" ->
                 IF gustVortex.nVortex = 0 THEN none
                 ELSE [iDim \in Dims |-> <<"vortex", gustVortex.nVortex, x, Physical_t>>]
            [] OTHER -> none

\* lines 936-951: the header is skipped, every later line of size # 0 adds
\* one vortex; the vortex is known by the line it came from
RECURSIVE ReadVortices(_, _, _)
ReadVortices(lines, i, x0) ==
  IF i > Len(lines) THEN x0
  ELSE ReadVortices(lines, i + 1, IF lines[i] # "" THEN Append(x0, i) ELSE x0)

\* lines 789-799: the vortex file and the gust length are checked
OpensVortexFile_Mut == TRUE

OpensVortexFile == cfg.Gust_Type = "VORTEX"

LengthError_Mut == cfg.Gust_WaveLength < 0 /\ cfg.Gust_Type # "VORTEX"

LengthError == cfg.Gust_WaveLength <= 0 /\ cfg.Gust_Type # "VORTEX"

\* SetWind_GustField up to the loop over the levels, lines 734-803
GUST_Call ==
  /\ gustPc = "idle"
  /\ LET x0 == ReadVortices(gustFile.lines, 2, <<>>)
     IN IF OpensVortexFile /\ ~gustFile.present
          THEN /\ gustVortex' = [nVortex |-> 0, x0 |-> <<>>, opened |-> TRUE, error |-> "file"]
               /\ gustPc' = "error"
          ELSE /\ gustVortex' = [nVortex |-> IF OpensVortexFile THEN Len(x0) ELSE 0,
                                 x0 |-> IF OpensVortexFile THEN x0 ELSE <<>>,
                                 opened |-> OpensVortexFile,
                                 error |-> IF LengthError THEN "length" ELSE "none"]
               /\ gustPc' = IF LengthError THEN "error" ELSE "loop"
  /\ gustPos' = [iMGlevel |-> 0, iPoint |-> 0]
  /\ UNCHANGED <<gustNodes, gustFile>>
  /\ UNCHANGED <<cfgVars, feaVars, recVars, solVars, ldVars, hsVars>>

\* line 810: the grid velocity is reset when the gust is the only movement
ResetsGridVel_Mut == FALSE

ResetsGridVel == cfg.Kind_GridMovement = "GUST"

\* lines 807-897: one point of one level
GUST_Point ==
  /\ gustPc = "loop"
  /\ LET l == gustPos.iMGlevel
         pt == gustPos.iPoint
         node == gustNodes[l][pt]
         Gust == GustAt(node.Coord[1])
         GridVel == IF ResetsGridVel
                      THEN [iDim \in Dims |-> [base |-> 0, minus |-> <<>>]]
                      ELSE node.GridVel
     IN /\ gustNodes' = [gustNodes EXCEPT ![l][pt] =
                           [node EXCEPT !.WindGust = Gust,
                                        !.WindGustDer = <<Number(0), Number(0), Number(0)>>,
                                        !.GridVel = [iDim \in Dims |->
                                           [GridVel[iDim] EXCEPT !.minus = Append(@, Gust[iDim])]]]]
        /\ IF pt + 1 < cfg.nPoint
             THEN gustPos' = [gustPos EXCEPT !.iPoint = pt + 1] /\ gustPc' = "loop"
             ELSE IF l + 1 <= cfg.nMGLevels
               THEN gustPos' = [iMGlevel |-> l + 1, iPoint |-> 0] /\ gustPc' = "loop"
               ELSE gustPos' = [iMGlevel |-> l + 1, iPoint |-> 0] /\ gustPc' = "done"
  /\ UNCHANGED <<gustFile, gustVortex>>
  /\ UNCHANGED <<cfgVars, feaVars, recVars, solVars, ldVars, hsVars>>

\* SetWind_GustField returns, lines 901-905; the driver calls it again in
\* the Preprocess of the next time step
GUST_Return ==
  /\ gustPc = "done"
  /\ cfgTimeIter < MaxTimeIter
  /\ cfgTimeIter' = cfgTimeIter + 1
  /\ gustPc' = "idle"
  /\ UNCHANGED <<gustNodes, gustFile, gustVortex, gustPos>>
  /\ UNCHANGED <<cfg, cfgInnerIter, val_iZone>>
  /\ UNCHANGED <<feaVars, recVars, solVars, ldVars, hsVars>>

InitialGustNodes ==
  [l \in Levels |-> [pt \in Points |->
     [Coord |-> <<pt + 1, l>>,
      GridVel |-> [iDim \in Dims |-> [base |-> 1, minus |-> <<>>]],
      WindGust |-> [iDim \in Dims |-> Untouched],
      WindGustDer |-> <<Untouched, Untouched, Untouched>>]]]

InitGust ==
  /\ cfg \in ConfigGust
  /\ cfgInnerIter = [z \in Zones |-> EntryInnerIter + z]
  /\ cfgTimeIter = 0
  /\ val_iZone = ZONE_0
  /\ FEAAtRest
  /\ RecAtRest
  /\ SolveAtRest
  /\ LoadAtRest
  /\ HistAtRest
  /\ gustPc = "idle"
  /\ gustNodes = InitialGustNodes
  /\ gustFile \in VortexFiles
  /\ (cfg.Gust_Type # "VORTEX") => Len(gustFile.lines) <= 1
  /\ gustVortex = [nVortex |-> 0, x0 |-> <<>>, opened |-> FALSE, error |-> "none"]
  /\ gustPos = [iMGlevel |-> 0, iPoint |-> 0]

NextGust ==
  \/ GUST_Call
  \/ GUST_Point
  \/ GUST_Return

SpecGust == InitGust /\ [][NextGust]_vars

(***************************************************************************)
(* Reading the log of calls of one Iterate.                                *)
(***************************************************************************)
IsIter(e) == e[1] = "Structural_Iteration"
IsMonitor(e) == e[1] = "Monitor"
IsSetLoad(e) == e[1] = "SetLoad_Increment"
IsIncrement(e) == e[1] = "SetLoad_Increment" /\ e[2] # 0
IsInitialCondition(e) == e[1] = "SetInitialCondition"

Positions(log, P(_)) == {i \in 1 .. Len(log) : P(log[i])}

Min(S) == CHOOSE x \in S : \A y \in S : x <= y

\* Every structural iteration of log is directly followed by the Monitor
\* call of the same inner iteration, and there is no other Monitor call.
MonitoredOnce(log) ==
  /\ \A i \in Positions(log, IsIter) :
       /\ i + 1 <= Len(log)
       /\ IsMonitor(log[i + 1])
       /\ log[i + 1][2] = log[i][4]
  /\ \A i \in Positions(log, IsMonitor) :
       /\ i > 1
       /\ IsIter(log[i - 1])

\* The iterations of log are those of one Newton-Raphson loop that starts at
\* inner iteration 0 and ends at the first converged Monitor result at an
\* inner iteration > 0, or after limit iterations.
NewtonRaphsonLoop(log, limit) ==
  LET its == SelectSeq(log, IsIter)
      mons == SelectSeq(log, IsMonitor)
      n == Len(its)
  IN /\ MonitoredOnce(log)
     /\ Len(mons) = n
     /\ \A k \in 1 .. n : its[k][4] = k - 1
     /\ \A k \in 1 .. n : (mons[k][3] /\ k - 1 > 0) => k = n
     /\ \/ n = limit
        \/ n >= 2 /\ n <= limit /\ mons[n][3]

OnDirectPath == ~linear /\ nonlinear /\ ~incremental_load /\ ~disc_adj_fem
OnIncrementalPath == ~linear /\ ~(nonlinear /\ ~incremental_load)
CriteriaNotMet == \E i \in 1 .. Len(feaLog) : feaLog[i] = <<"MeetCriteria", FALSE>>

\* C9: on the direct nonlinear path of a primal run the Newton-Raphson loop
\* is not ended by a converged Monitor result at inner iteration 0; it ends at
\* the first inner iteration > 0 whose Monitor call returns true, or after
\* nInner_Iter iterations, with one Monitor call per structural iteration.
C9_DirectLoopEnd ==
  (feaPc = "done" /\ OnDirectPath) => NewtonRaphsonLoop(feaLog, nInner_Iter)

\* a direct run whose first Monitor call reported convergence and which went on
C9_Witness ==
  /\ feaPc = "done"
  /\ OnDirectPath
  /\ LET mons == SelectSeq(feaLog, IsMonitor)
     IN Len(mons) >= 2 /\ mons[1][3] /\ mons[Len(mons)][3]

\* The part of the log between the load setting at position p and the next
\* load setting.
SegmentAfter(log, p) ==
  LET q == Min({x \in Positions(log, IsSetLoad) : x > p})
  IN SubSeq(log, p + 1, q - 1)

\* C7: when the trial criteria are not met and nIncrements = N >= 1, the load
\* increments set are (1, 1/N), ..., (N, N/N) in this order and once each, the
\* initial condition is restored once and before the first of them, and every
\* increment completes a Newton-Raphson loop of its own before the next load
\* setting.
C7_IncrementSequence ==
  (feaPc = "done" /\ OnIncrementalPath /\ CriteriaNotMet /\ nIncrements >= 1) =>
    LET incs == SelectSeq(feaLog, IsIncrement)
        incPos == Positions(feaLog, IsIncrement)
        icPos == Positions(feaLog, IsInitialCondition)
    IN /\ Len(incs) = nIncrements
       /\ \A i \in 1 .. nIncrements :
            /\ incs[i][2] = i
            /\ incs[i][3][2] > 0
            /\ incs[i][3][1] * nIncrements = i * incs[i][3][2]
       /\ incs[nIncrements][3] = FullLoad
       /\ Cardinality(icPos) = 1
       /\ \A c \in icPos : \A p \in incPos : c < p
       /\ \A p \in incPos : NewtonRaphsonLoop(SegmentAfter(feaLog, p), nInner_Iter)

\* a full sequence of at least two increments in which an increment iterated
\* more than once
C7_Witness ==
  /\ feaPc = "done"
  /\ OnIncrementalPath
  /\ CriteriaNotMet
  /\ nIncrements >= 2
  /\ \E p \in Positions(feaLog, IsIncrement) :
       Len(SelectSeq(SegmentAfter(feaLog, p), IsIter)) >= 2

\* C8: when Iterate returns the load coefficient is 1.0, whatever the path.
C8_FullLoadAtReturn ==
  feaPc = "done" => (feaLoad.loadIncrement = FullLoad /\ feaLoad.ForceCoeff = FullLoad)

\* a return after a sequence in which the load was below 1.0
C8_Witness ==
  /\ feaPc = "done"
  /\ \E i \in Positions(feaLog, IsIncrement) : feaLog[i][3] # FullLoad
  /\ feaLoad.loadIncrement = FullLoad

(***************************************************************************)
(* CDiscAdjFEAIteration::SetRecording.  The AD tape is the list of what    *)
(* was registered and executed while a recording was active; AD::Reset     *)
(* empties it.                                                             *)
(***************************************************************************)
RecordingKinds == {"NONE", "SOLUTION_VARIABLES", "MESH_COORDS", "MESH_DEFORM", "SOLUTION_AND_MESH"}

dynamic == cfg.Time_Domain

ConfigRec ==
  { c \in [ GeometricConditions : {"SMALL_DEFORMATIONS", "LARGE_DEFORMATIONS"},
            IncrementalLoad : BOOLEAN,
            Discrete_Adjoint : {TRUE},
            HistoryOutput : {TRUE},
            nInner_Iter : 0 .. MaxInnerIter,
            NumberIncrements : {MaxIncrements},
            Time_Domain : BOOLEAN,
            Unst_AdjointIter : 0 .. MaxAdjointIter ] :
      \* a steady run has no adjoint start iteration; a time-domain run has
      \* Unst_AdjointIter >= nTimeIter > TimeIter
      IF c.Time_Domain THEN c.Unst_AdjointIter >= 1 ELSE c.Unst_AdjointIter = 0 }

\* line 2540: SU2_TYPE::Int(GetUnst_AdjointIter()) - SU2_TYPE::Int(TimeIter) - 1
DirectTimeIterOf_Mut(unst, timeIter) == unst - timeIter

DirectTimeIterOf(unst, timeIter) == unst - timeIter - 1

\* line 2549: the indices are cleared only on a change of the recording
NeedsFlush_Mut(current, kind) == current # kind

NeedsFlush(current, kind) == current # kind /\ current # "NONE"

\* CDiscAdjFEAIteration::RegisterInput, lines 2625-2646: what is registered
RegisterInput(kind) ==
  IF kind # "MESH_COORDS"
    THEN << <<"Input", "ADJFEA_SOL", "Solution">>, <<"Input", "ADJFEA_SOL", "Variables">> >>
    ELSE << <<"Input", "FEA_SOL", "Variables">>, <<"Input", "Geometry", "Coordinates">> >>

WhileRecording(entries) == IF tapeActive THEN entries ELSE <<>>

\* SetRecording is called for val_iZone with kind_recording = kind; lines 2534-2541
SR_Call ==
  /\ srPc = "idle"
  /\ feaPc = "idle"
  /\ \E kind \in RecordingKinds :
       srLocal' = [kind |-> kind,
                   InnerIter |-> cfgInnerIter[ZONE_0],
                   TimeIter |-> cfgTimeIter,
                   DirectTimeIter |-> IF dynamic
                                        THEN DirectTimeIterOf(cfg.Unst_AdjointIter, cfgTimeIter)
                                        ELSE 0]
  /\ srHist' = [calls |-> srHist.calls,
                prevKind |-> srLocal.kind,
                prevTape |-> tape,
                entryStored |-> CurrentRecording,
                entryTime |-> cfgTimeIter,
                entryInner |-> cfgInnerIter,
                starts |-> 0, stops |-> 0, nested |-> FALSE]
  /\ srLog' = <<>>
  /\ srPc' = "reset"
  /\ UNCHANGED <<tapeActive, tape, CurrentRecording>>
  /\ UNCHANGED <<cfgVars, feaVars>>
  /\ UNCHANGED restOfFEA

\* line 2545: AD::Reset()
SR_Reset_Mut ==
  /\ srPc = "reset"
  /\ srLog' = Append(srLog, <<"AD_Reset">>)
  /\ srPc' = "flush"
  /\ UNCHANGED <<tape, tapeActive, CurrentRecording, srLocal, srHist>>
  /\ UNCHANGED <<cfgVars, feaVars>>
  /\ UNCHANGED restOfFEA

SR_Reset ==
  /\ srPc = "reset"
  /\ tape' = <<>>
  /\ srLog' = Append(srLog, <<"AD_Reset">>)
  /\ srPc' = "flush"
  /\ UNCHANGED <<tapeActive, CurrentRecording, srLocal, srHist>>
  /\ UNCHANGED <<cfgVars, feaVars>>
  /\ UNCHANGED restOfFEA

\* lines 2549-2560: the flush starts (index clear, dependencies of the
\* combined mode, call of the primal Iterate)
SR_Flush ==
  /\ srPc = "flush"
  /\ NeedsFlush(CurrentRecording, srLocal.kind)
  /\ srLog' = srLog \o << <<"Adj_SetRecording">>,
                          <<"SetDependencies", "SOLUTION_AND_MESH">>,
                          <<"Iterate", tapeActive, cfgTimeIter>> >>
  /\ tape' = tape \o WhileRecording(<< <<"Dependencies", "SOLUTION_AND_MESH">> >>)
  /\ FEA_Invoke
  /\ srPc' = "flush_iterate"
  /\ UNCHANGED <<tapeActive, CurrentRecording, srLocal, srHist>>
  /\ UNCHANGED cfgVars
  /\ UNCHANGED restOfFEA

\* line 2549: no flush
SR_NoFlush ==
  /\ srPc = "flush"
  /\ ~NeedsFlush(CurrentRecording, srLocal.kind)
  /\ srPc' = "prepare"
  /\ UNCHANGED <<tapeActive, tape, CurrentRecording, srLocal, srLog, srHist>>
  /\ UNCHANGED <<cfgVars, feaVars>>
  /\ UNCHANGED restOfFEA

\* line 2560: the primal Iterate of the flush has returned
SR_FlushReturn ==
  /\ srPc = "flush_iterate"
  /\ feaPc = "done"
  /\ feaPc' = "idle"
  /\ srPc' = "prepare"
  /\ UNCHANGED <<IntIter, iIncrement, StopCalc, CurIter, feaLog, feaLoad, intConv, outConv>>
  /\ UNCHANGED <<tapeActive, tape, CurrentRecording, srLocal, srLog, srHist>>
  /\ UNCHANGED cfgVars
  /\ UNCHANGED restOfFEA

\* line 2566: the adjoint solver prepares for the recording
SR_Prepare_Mut ==
  /\ srPc = "prepare"
  /\ tapeActive' = TRUE
  /\ srHist' = [srHist EXCEPT !.starts = @ + 1, !.nested = @ \/ tapeActive]
  /\ srLog' = srLog \o << <<"AD_StartRecording">>, <<"Adj_SetRecording">> >>
  /\ srPc' = "register_input"
  /\ UNCHANGED <<tape, CurrentRecording, srLocal>>
  /\ UNCHANGED <<cfgVars, feaVars>>
  /\ UNCHANGED restOfFEA

SR_Prepare ==
  /\ srPc = "prepare"
  /\ srLog' = Append(srLog, <<"Adj_SetRecording">>)
  /\ srPc' = "start"
  /\ UNCHANGED <<tapeActive, tape, CurrentRecording, srLocal, srHist>>
  /\ UNCHANGED <<cfgVars, feaVars>>
  /\ UNCHANGED restOfFEA

\* line 2570: AD::StartRecording()
SR_Start ==
  /\ srPc = "start"
  /\ tapeActive' = TRUE
  /\ srHist' = [srHist EXCEPT !.starts = @ + 1, !.nested = @ \/ tapeActive]
  /\ srLog' = Append(srLog, <<"AD_StartRecording">>)
  /\ srPc' = "register_input"
  /\ UNCHANGED <<tape, CurrentRecording, srLocal>>
  /\ UNCHANGED <<cfgVars, feaVars>>
  /\ UNCHANGED restOfFEA

\* line 2574: RegisterInput(kind_recording)
SR_RegisterInput ==
  /\ srPc = "register_input"
  /\ tape' = tape \o WhileRecording(RegisterInput(srLocal.kind))
  /\ srLog' = Append(srLog, <<"RegisterInput", srLocal.kind>>)
  /\ srPc' = "dependencies"
  /\ UNCHANGED <<tapeActive, CurrentRecording, srLocal, srHist>>
  /\ UNCHANGED <<cfgVars, feaVars>>
  /\ UNCHANGED restOfFEA

\* line 2578: SetDependencies(kind_recording)
SR_SetDependencies ==
  /\ srPc = "dependencies"
  /\ tape' = tape \o WhileRecording(<< <<"Dependencies", srLocal.kind>> >>)
  /\ srLog' = Append(srLog, <<"SetDependencies", srLocal.kind>>)
  /\ srPc' = "direct"
  /\ UNCHANGED <<tapeActive, CurrentRecording, srLocal, srHist>>
  /\ UNCHANGED <<cfgVars, feaVars>>
  /\ UNCHANGED restOfFEA

\* lines 2582-2589: the direct time iteration is set and the primal Iterate
\* is called
SR_Iterate ==
  /\ srPc = "direct"
  /\ cfgTimeIter' = IF dynamic THEN srLocal.DirectTimeIter ELSE cfgTimeIter
  /\ srLog' = Append(srLog, <<"Iterate", tapeActive, cfgTimeIter'>>)
  /\ FEA_Invoke
  /\ srPc' = "iterate"
  /\ UNCHANGED <<tapeActive, tape, CurrentRecording, srLocal, srHist>>
  /\ UNCHANGED <<cfg, cfgInnerIter, val_iZone>>
  /\ UNCHANGED restOfFEA

\* line 2591: the primal Iterate has returned, the time iteration is restored
SR_IterateReturn ==
  /\ srPc = "iterate"
  /\ feaPc = "done"
  /\ feaPc' = "idle"
  /\ cfgTimeIter' = srLocal.TimeIter
  /\ srPc' = "register_output"
  /\ UNCHANGED <<IntIter, iIncrement, StopCalc, CurIter, feaLog, feaLoad, intConv, outConv>>
  /\ UNCHANGED <<tapeActive, tape, CurrentRecording, srLocal, srLog, srHist>>
  /\ UNCHANGED <<cfg, cfgInnerIter, val_iZone>>
  /\ UNCHANGED restOfFEA

\* line 2595: RegisterOutput
SR_RegisterOutput ==
  /\ srPc = "register_output"
  /\ tape' = tape \o WhileRecording(<< <<"Output", "ADJFEA_SOL">> >>)
  /\ srLog' = Append(srLog, <<"RegisterOutput">>)
  /\ srPc' = "stop"
  /\ UNCHANGED <<tapeActive, CurrentRecording, srLocal, srHist>>
  /\ UNCHANGED <<cfgVars, feaVars>>
  /\ UNCHANGED restOfFEA

\* line 2599: AD::StopRecording()
SR_Stop_Mut ==
  /\ srPc = "stop"
  /\ srLog' = Append(srLog, <<"AD_StopRecording">>)
  /\ srPc' = "store"
  /\ UNCHANGED <<tapeActive, srHist, tape, CurrentRecording, srLocal>>
  /\ UNCHANGED <<cfgVars, feaVars>>
  /\ UNCHANGED restOfFEA

SR_Stop ==
  /\ srPc = "stop"
  /\ tapeActive' = FALSE
  /\ srHist' = [srHist EXCEPT !.stops = @ + 1]
  /\ srLog' = Append(srLog, <<"AD_StopRecording">>)
  /\ srPc' = "store"
  /\ UNCHANGED <<tape, CurrentRecording, srLocal>>
  /\ UNCHANGED <<cfgVars, feaVars>>
  /\ UNCHANGED restOfFEA

\* lines 2603-2607: the mode is stored, the inner iteration of ZONE_0 is reset
SR_Store ==
  /\ srPc = "store"
  /\ CurrentRecording' = srLocal.kind
  /\ cfgInnerIter' = [cfgInnerIter EXCEPT ![ZONE_0] = srLocal.InnerIter]
  /\ srLog' = Append(srLog, <<"StoreRecording", srLocal.kind>>)
  /\ srHist' = [srHist EXCEPT !.calls = IF @ < 2 THEN @ + 1 ELSE @]
  /\ srPc' = "idle"
  /\ UNCHANGED <<tapeActive, tape, srLocal>>
  /\ UNCHANGED <<cfg, cfgTimeIter, val_iZone>>
  /\ UNCHANGED restOfFEA
  /\ UNCHANGED feaVars

(***************************************************************************)
(* Specification of a discrete-adjoint structural run: SetRecording is     *)
(* called any number of times, with any recording kind, for one zone.      *)
(***************************************************************************)
InitRec ==
  /\ cfg \in ConfigRec
  /\ cfgInnerIter = [z \in Zones |-> EntryInnerIter + z]
  /\ cfgTimeIter \in 0 .. MaxAdjointIter
  /\ dynamic => cfgTimeIter < cfg.Unst_AdjointIter
  /\ ~dynamic => cfgTimeIter <= 1
  /\ val_iZone \in Zones
  /\ FEAAtRest
  /\ RecAtRest
  /\ SolveAtRest
  /\ LoadAtRest
  /\ OthersAtRest

NextRec ==
  \/ SR_Call
  \/ SR_Reset
  \/ SR_Flush
  \/ SR_NoFlush
  \/ SR_FlushReturn
  \/ SR_Prepare
  \/ SR_Start
  \/ SR_RegisterInput
  \/ SR_SetDependencies
  \/ SR_Iterate
  \/ SR_IterateReturn
  \/ SR_RegisterOutput
  \/ SR_Stop
  \/ SR_Store
  \/ FEA_Entry
  \/ FEA_Linear
  \/ FEA_DirectAdjoint
  \/ FEA_DirectEnd

SpecRec == InitRec /\ [][NextRec]_vars

(***************************************************************************)
(* Reading the log of calls of one SetRecording.                           *)
(***************************************************************************)
OpNames(log) == [i \in 1 .. Len(log) |-> log[i][1]]

RecordingSteps ==
  <<"Adj_SetRecording", "AD_StartRecording", "RegisterInput", "SetDependencies",
    "Iterate", "RegisterOutput", "AD_StopRecording", "StoreRecording">>

FlushSteps == <<"Adj_SetRecording", "SetDependencies", "Iterate">>

Returned == srPc = "idle" /\ srHist.calls >= 1

\* position of the start of the recording in the log of a returned call
StartPos(log) == Min(Positions(log, LAMBDA e : e[1] = "AD_StartRecording") \cup {Len(log) + 1})

\* the call whose log this is ran the flush
FlushRan(log) == \E i \in 1 .. Len(log) : log[i][1] = "Iterate" /\ i < StartPos(log)

\* C2: SetRecording resets the tape first, then (on a mode change only) the
\* flush, then the adjoint-solver buffer reset, the start of the recording, the
\* input registration, the dependencies, the primal Iterate once while the
\* recording is active, the output registration, the stop of the recording,
\* and last the store of the requested mode.
C2_StepOrder ==
  Returned =>
    /\ \/ OpNames(srLog) = <<"AD_Reset">> \o RecordingSteps
       \/ OpNames(srLog) = <<"AD_Reset">> \o FlushSteps \o RecordingSteps
    /\ LET n == Len(srLog)
       IN /\ srLog[n] = <<"StoreRecording", srLocal.kind>>
          /\ srLog[n - 3][2] = TRUE
          /\ srLog[n - 4] = <<"SetDependencies", srLocal.kind>>
          /\ srLog[n - 5] = <<"RegisterInput", srLocal.kind>>

\* a returned call that flushed
C2_Witness ==
  /\ Returned
  /\ Len(srLog) = 12
  /\ srLocal.kind = "MESH_COORDS"

\* C3: the flush runs exactly when the stored mode differs from the requested
\* mode and is not NONE; its replay of the primal Iterate runs after the reset
\* with the tape not recording and before the recording starts, after the
\* index clear and the dependencies of SOLUTION_AND_MESH; the first call never
\* flushes.
C3_FlushCondition ==
  Returned =>
    /\ FlushRan(srLog) <=>
         (srHist.entryStored # srLocal.kind /\ srHist.entryStored # "NONE")
    /\ FlushRan(srLog) =>
         /\ SubSeq(srLog, 1, 4) = << <<"AD_Reset">>, <<"Adj_SetRecording">>,
                                     <<"SetDependencies", "SOLUTION_AND_MESH">>,
                                     <<"Iterate", FALSE, srHist.entryTime>> >>
         /\ Cardinality(Positions(srLog, LAMBDA e : e[1] = "Iterate")) = 2
    /\ srHist.calls = 1 => ~FlushRan(srLog)

\* a returned call that flushed after an earlier call with another mode
C3_Witness ==
  /\ Returned
  /\ FlushRan(srLog)
  /\ srHist.entryStored = "SOLUTION_VARIABLES"
  /\ srLocal.kind = "MESH_COORDS"

TapeInputs == SelectSeq(tape, LAMBDA e : e[1] = "Input")

\* C4: a second call with the same mode right after a call leaves the tape as
\* the first call left it, with every input registered once, and does not
\* flush.
C4_SameModeTwice ==
  (Returned /\ srHist.calls >= 2 /\ srHist.prevKind = srLocal.kind) =>
    /\ tape = srHist.prevTape
    /\ \A i, j \in 1 .. Len(TapeInputs) : TapeInputs[i] = TapeInputs[j] => i = j
    /\ Len(TapeInputs) = 2
    /\ ~FlushRan(srLog)

\* two calls in a row with the same mode, with the primal iteration on the tape
C4_Witness ==
  /\ Returned
  /\ srHist.calls >= 2
  /\ srHist.prevKind = srLocal.kind
  /\ srLocal.kind = "SOLUTION_AND_MESH"
  /\ \E i \in 1 .. Len(tape) : tape[i][1] = "Structural_Iteration"

\* C5: a recording is never started while one is active, every start is
\* matched by a stop before SetRecording returns, and between calls the tape
\* is not recording and the stored mode is the mode of the most recent call.
C5_SingleRecording ==
  /\ ~srHist.nested
  /\ srHist.starts <= 1
  /\ tapeActive <=> (srHist.starts = 1 /\ srHist.stops = 0)
  /\ srPc = "idle" => (~tapeActive /\ srHist.starts = srHist.stops)
  /\ Returned => (srHist.starts = 1 /\ CurrentRecording = srLocal.kind)

\* between two calls after a call that changed the mode
C5_Witness ==
  /\ Returned
  /\ srHist.calls >= 2
  /\ srHist.entryStored = "MESH_COORDS"
  /\ CurrentRecording = "SOLUTION_VARIABLES"
  /\ srHist.stops = 1

\* the Structural_Iteration calls of the running primal Iterate
FeaIterTimes == {feaLog[i][3] : i \in Positions(feaLog, IsIter)}

\* C6: in a time-domain problem the recorded primal Iterate runs with the
\* time iteration Unst_AdjointIter - TimeIter - 1 and the time iteration has
\* its entry value again when SetRecording returns; in a steady problem the
\* time iteration keeps its entry value during the Iterate and at return.
C6_DirectTimeIter ==
  LET expected == IF cfg.Time_Domain
                    THEN cfg.Unst_AdjointIter - srHist.entryTime - 1
                    ELSE srHist.entryTime
  IN /\ srPc = "iterate" => (cfgTimeIter = expected /\ FeaIterTimes \subseteq {expected})
     /\ Returned => (cfgTimeIter = srHist.entryTime /\ srLog[Len(srLog) - 3][3] = expected)
     /\ srPc \in {"register_output", "stop", "store"} => cfgTimeIter = srHist.entryTime

\* a time-domain recording whose direct time iteration differs from TimeIter
C6_Witness ==
  /\ Returned
  /\ cfg.Time_Domain
  /\ srLog[Len(srLog) - 3][3] # srHist.entryTime
  /\ srLog[Len(srLog) - 3][3] = 1
  /\ cfgTimeIter = 0

(***************************************************************************)
(* Reading the log of calls of one Solve.                                  *)
(***************************************************************************)
IsSolIterate(e) == e[1] = "Iterate"
IsSolMonitor(e) == e[1] = "Monitor"
IterateOrMonitor(e) == IsSolIterate(e) \/ IsSolMonitor(e)

\* C1: in one Solve of CFluidIteration or CHeatIteration every Iterate call is
\* followed by exactly one Monitor call before the next Iterate call, and no
\* Iterate call follows the first Monitor call that returned true.
C1_MonitorPerIterate ==
  LET im == SelectSeq(solLog, IterateOrMonitor)
  IN /\ Len(im) % 2 = 0
     /\ \A i \in 1 .. Len(im) :
          /\ (i % 2 = 1) => (IsSolIterate(im[i]) /\ im[i][3] = (i - 1) \div 2)
          /\ (i % 2 = 0) => (IsSolMonitor(im[i]) /\ im[i][3] = im[i - 1][3])
          /\ (IsSolMonitor(im[i]) /\ im[i][4]) => i = Len(im)

\* a Solve that stopped early, at its second Monitor call
C1_Witness ==
  /\ solPc = "idle"
  /\ solKind = "Heat"
  /\ nInner_Iter > 2
  /\ LET im == SelectSeq(solLog, IterateOrMonitor)
     IN Len(im) = 4 /\ im[4][4] /\ ~im[2][4]

(***************************************************************************)
(* Reading the log of calls of one loader.                                 *)
(***************************************************************************)
RestartCalls == Positions(ldLog, LAMBDA e : e[1] = "LoadRestart")
DefaultCalls ==
  Positions(ldLog, LAMBDA e : e[1] \in {"SetFreeStream_Solution", "SetSolution",
                                        "SetSolution_Accel", "SetSolution_Vel"})

\* the default state of the loader that ran last
DefaultStateSet ==
  CASE ldCall.loader = "Fluid" ->
         /\ \A l \in 0 .. cfg.nMGLevels :
              /\ ldSol["FLOW_SOL"][l] = FreeStream
              /\ <<"SetFreeStream_Solution", "FLOW_SOL", l, 0>> \in Range(ldLog)
    [] ldCall.loader = "Heat" ->
         /\ \A l \in 0 .. cfg.nMGLevels :
              /\ ldSol["HEAT_SOL"][l] = FreeStream
              /\ <<"SetFreeStream_Solution", "HEAT_SOL", l, 0>> \in Range(ldLog)
    [] ldCall.loader = "FEA" ->
         \A iPoint \in 0 .. (cfg.nPoint - 1) : \A iVar \in 0 .. (nVar - 1) :
           /\ ldNodes[iPoint][iVar].Solution = Zero
           /\ ldNodes[iPoint][iVar].Solution_Vel = Zero
           /\ ldNodes[iPoint][iVar].Solution_Accel = Zero

\* the solution read for the loader that ran last
RestartStateSet(k) ==
  CASE ldCall.loader = "Fluid" -> ldSol["FLOW_SOL"][MESH_0] = <<"restart", k>>
    [] ldCall.loader = "Heat" -> ldSol["HEAT_SOL"][MESH_0] = <<"restart", k>>
    [] ldCall.loader = "FEA" -> \A iPoint \in 0 .. (cfg.nPoint - 1) :
                                   ldNodes[iPoint][0].Solution = <<"restart", k>>

\* C10: every restart loader called with a direct iteration < 0 (-1 included)
\* calls no LoadRestart and sets the default state (free stream on the levels
\* 0..nMGLevels, zero displacement, velocity and acceleration at every point);
\* called with a direct iteration >= 0 (0 included) it calls LoadRestart and
\* sets no default state.
C10_RestartBoundary ==
  ldCall.loader # "none" =>
    /\ ldCall.val_DirectIter < 0 =>
         (RestartCalls = {} /\ DefaultCalls # {} /\ DefaultStateSet)
    /\ ldCall.val_DirectIter >= 0 =>
         /\ RestartCalls # {}
         /\ \A i \in RestartCalls : ldLog[i][4] = ldCall.val_DirectIter
         /\ DefaultCalls = {}
         /\ RestartStateSet(ldCall.val_DirectIter)

\* the fluid loader was asked for direct iteration -1 after a restart was read
C10_Witness ==
  /\ ldCall = [loader |-> "Fluid", val_DirectIter |-> -1]
  /\ cfg.nMGLevels >= 1
  /\ ldSol["FLOW_SOL"][cfg.nMGLevels] = FreeStream
  /\ ldSol["HEAT_SOL"][MESH_0] = <<"restart", 0>>
  /\ ldNodes[0][0].Solution = Zero

\* C11: after Update of CFluidIteration (CHeatIteration) in a 2nd-order dual
\* time configuration, on every multigrid level the flow (heat) array of time
\* n holds what the current solution held before the call and the array of
\* time n-1 holds what the array of time n held before the call; both keep
\* these values when the next Iterate changes the current solution.
C11_HistoryShift ==
  (hsCall.op = "Update" /\ dual_time_2nd) =>
    \A l \in 0 .. cfg.nMGLevels :
      LET ph == SolvedPhysics(hsCall.kind)
          now == hsSol[ThisSolver][ph][l]
          before == hsCall.prev[ph][l]
      IN /\ now.Solution_time_n = before.Solution
         /\ now.Solution_time_n1 = before.Solution_time_n

\* the second Update is over and the next time step has changed the solution
C11_Witness ==
  /\ hsCall.op = "Update"
  /\ hsCall.later
  /\ dual_time_2nd
  /\ cfg.nMGLevels >= 1
  /\ LET now == hsSol[ThisSolver]["FLOW_SOL"][cfg.nMGLevels]
     IN /\ now.Solution = <<"direct", 2>>
        /\ now.Solution_time_n = <<"direct", 1>>
        /\ now.Solution_time_n1 = <<"direct", 0>>

\* the physics CFluidIteration::Update is said to shift: the flow, the
\* turbulence model of a RANS solver, the LM transition model
ShiftedPhysics ==
  {"FLOW_SOL"}
    \cup (IF cfg.Kind_Solver \in {"RANS", "INC_RANS"} THEN {"TURB_SOL"} ELSE {})
    \cup (IF cfg.Kind_Trans_Model = "LM" THEN {"TRANS_SOL"} ELSE {})

\* Update of a time marching other than dual time stepping has changed
\* neither an array nor a convergence flag, and has made no call
UpdateChangedNothing ==
  /\ hsSol[ThisSolver] = hsCall.prev
  /\ intConv = hsCall.conv
  /\ hsLog = <<>>

\* C21: CFluidIteration::Update under dual time stepping shifts the time
\* history of every solved physics (flow, turbulence for RANS, transition
\* for LM) on every level 0..nMGLevels and sets their convergence flags to
\* false; with any other time marching it changes nothing.
C21_UpdateAllLevels ==
  (hsCall.phase = "advance" /\ hsCall.kind = "Fluid") =>
    IF dual_time
      THEN \A ph \in ShiftedPhysics :
             /\ intConv[ph] = FALSE
             /\ \A l \in 0 .. cfg.nMGLevels :
                  hsSol[ThisSolver][ph][l] = SetDualTime_Solver(hsCall.prev[ph][l])
      ELSE UpdateChangedNothing

\* C21, with the levels the code shifts: the flow on every level, the
\* turbulence and the transition model on the finest level MESH_0 only,
\* every other array as it was; the convergence flags of the shifted physics
\* are false and the other flags are as they were.
C21_UpdateShiftedLevels ==
  (hsCall.phase = "advance" /\ hsCall.kind = "Fluid") =>
    IF dual_time
      THEN /\ \A ph \in Physics : \A l \in 0 .. cfg.nMGLevels :
                hsSol[ThisSolver][ph][l] =
                  IF ph \in ShiftedPhysics /\ (ph = "FLOW_SOL" \/ l = 0)
                    THEN SetDualTime_Solver(hsCall.prev[ph][l])
                    ELSE hsCall.prev[ph][l]
           /\ \A ph \in DOMAIN intConv :
                intConv[ph] = IF ph \in ShiftedPhysics THEN FALSE ELSE hsCall.conv[ph]
      ELSE UpdateChangedNothing

\* a dual-time Update of a RANS solver with the LM model on two levels has
\* shifted turbulence and transition on the finest level and reset three
\* flags that were true
C21_Witness ==
  /\ hsCall.phase = "advance"
  /\ hsCall.kind = "Fluid"
  /\ dual_time
  /\ cfg.nMGLevels >= 1
  /\ cfg.Kind_Solver = "INC_RANS"
  /\ cfg.Kind_Trans_Model = "LM"
  /\ \A ph \in ShiftedPhysics : hsCall.conv[ph] /\ ~intConv[ph]
  /\ hsSol[ThisSolver]["TURB_SOL"][0].Solution_time_n = <<"direct", 1>>
  /\ hsSol[ThisSolver]["TURB_SOL"][0].Solution_time_n1 = <<"direct", 0>>
  /\ hsSol[ThisSolver]["TURB_SOL"][1].Solution_time_n = Initial
  /\ hsSol[ThisSolver]["FLOW_SOL"][1].Solution_time_n = <<"direct", 1>>

(***************************************************************************)
(* Reading the mesh during and after one SetWind_GustField.                *)
(***************************************************************************)
\* the points the running call has been through
GustDone ==
  IF gustPc \in {"loop", "done"}
    THEN {lp \in (0 .. cfg.nMGLevels) \X (0 .. (cfg.nPoint - 1)) :
            \/ lp[1] < gustPos.iMGlevel
            \/ (lp[1] = gustPos.iMGlevel /\ lp[2] < gustPos.iPoint)}
    ELSE {}

\* numerator of the gust coordinate of a point: x_gust = GustNumerator / L
GustNumerator(lp) ==
  gustNodes[lp[1]][lp[2]].Coord[1] - cfg.Gust_Begin_Loc
    - cfg.Velocity_Inf * (cfgTimeIter * cfg.Delta_UnstTime - cfg.Gust_Begin_Time)

\* C12: for every point of every level SetWind_GustField has been through:
\* before t_begin the stored gust is zero in every component; for the top-hat
\* gust from t_begin on, the component in the gust direction is gust_amp when
\* 0 < x_gust < n_periods and 0 otherwise (x_gust = 0 and x_gust = n_periods
\* included), the other component is 0, and the stored derivatives are zero.
C12_TopHatGust ==
  \A lp \in GustDone :
    LET node == gustNodes[lp[1]][lp[2]]
        t == cfgTimeIter * cfg.Delta_UnstTime
        inside == /\ 0 < GustNumerator(lp)
                  /\ GustNumerator(lp) < cfg.Gust_Periods * cfg.Gust_WaveLength
    IN /\ (t < cfg.Gust_Begin_Time) =>
            \A iDim \in 0 .. (nDim - 1) : node.WindGust[iDim] = <<"const", 0, 0, 1>>
       /\ (cfg.Gust_Type = "TOP_HAT" /\ t >= cfg.Gust_Begin_Time) =>
            /\ node.WindGust[cfg.Gust_Dir] =
                 IF inside THEN <<"const", cfg.Gust_Ampl, 0, 1>> ELSE <<"const", 0, 0, 1>>
            /\ \A iDim \in (0 .. (nDim - 1)) \ {cfg.Gust_Dir} :
                 node.WindGust[iDim] = <<"const", 0, 0, 1>>
            /\ \A i \in 1 .. 3 : node.WindGustDer[i] = <<"const", 0, 0, 1>>

\* a top-hat call is over with one point inside the gust and one point at
\* x_gust = n_periods, on two levels
C12_Witness ==
  /\ gustPc = "done"
  /\ cfg.Gust_Type = "TOP_HAT"
  /\ cfg.nMGLevels >= 1
  /\ cfgTimeIter * cfg.Delta_UnstTime >= cfg.Gust_Begin_Time
  /\ \E lp \in GustDone :
       /\ gustNodes[lp[1]][lp[2]].WindGust[cfg.Gust_Dir] = <<"const", cfg.Gust_Ampl, 0, 1>>
       /\ gustNodes[lp[1]][lp[2]].GridVel[cfg.Gust_Dir].minus # <<>>
  /\ \E lp \in GustDone :
       /\ GustNumerator(lp) = cfg.Gust_Periods * cfg.Gust_WaveLength
       /\ gustNodes[lp[1]][lp[2]].WindGust[cfg.Gust_Dir] = <<"const", 0, 0, 1>>

\* the mesh as it was before SetWind_GustField was ever called
MeshUntouched ==
  \A l \in 0 .. cfg.nMGLevels : \A pt \in 0 .. (cfg.nPoint - 1) :
    /\ \A iDim \in 0 .. (nDim - 1) :
         /\ gustNodes[l][pt].GridVel[iDim] = [base |-> 1, minus |-> <<>>]
         /\ gustNodes[l][pt].WindGust[iDim] = Untouched
    /\ \A i \in 1 .. 3 : gustNodes[l][pt].WindGustDer[i] = Untouched

\* C13 as stated: SetWind_GustField called with a zero or negative gust
\* wavelength is in the fatal-error state with the mesh untouched.
C13_AnyGustType ==
  (cfg.Gust_WaveLength <= 0 /\ gustPc # "idle") =>
    (gustPc = "error" /\ MeshUntouched)

\* C13, amended: SetWind_GustField called with a zero or negative gust
\* wavelength and a gust type other than VORTEX is in the fatal-error state,
\* raised for the length, with no grid velocity and no stored gust modified.
C13_LengthError ==
  (cfg.Gust_WaveLength <= 0 /\ cfg.Gust_Type # "VORTEX" /\ gustPc # "idle") =>
    (gustPc = "error" /\ gustVortex.error = "length" /\ MeshUntouched)

C13_Witness ==
  /\ gustPc = "error"
  /\ gustVortex.error = "length"
  /\ cfg.Gust_WaveLength = 0
  /\ cfg.Gust_Type = "TOP_HAT"
  /\ MeshUntouched

\* C14: the vortex file is opened only for the gust type VORTEX; when it
\* cannot be opened the call is in the fatal-error state with the mesh
\* untouched; when it is read, the vortices are the lines after the header
\* that are not empty, one vortex each.
C14_VortexFile ==
  /\ gustVortex.opened => cfg.Gust_Type = "VORTEX"
  /\ (cfg.Gust_Type = "VORTEX" /\ ~gustFile.present /\ gustPc # "idle") =>
       (gustPc = "error" /\ gustVortex.error = "file" /\ MeshUntouched)
  /\ (gustVortex.opened /\ gustFile.present) =>
       LET data == {i \in 2 .. Len(gustFile.lines) : gustFile.lines[i] # ""}
       IN /\ gustVortex.nVortex = Cardinality(data)
          /\ Len(gustVortex.x0) = gustVortex.nVortex
          /\ {gustVortex.x0[i] : i \in 1 .. Len(gustVortex.x0)} = data

\* a file with a header, an empty line and a data line was read
C14_Witness ==
  /\ gustPc = "done"
  /\ gustVortex.opened
  /\ gustFile.lines = <<"x y strength core", "", "0.0 1.0 2.0 0.1">>
  /\ gustVortex.nVortex = 1
  /\ ~MeshUntouched

(***************************************************************************)
(* Reading the log of calls of one Solve.                                  *)
(***************************************************************************)
\* what C15 says of the calls made so far by the running or last Solve
OutputPlacement(log, pc) ==
  LET N == Len(log)
      outs == {i \in 1 .. N : log[i][1] = "Output"}
      mons == {i \in 1 .. N : log[i][1] = "Monitor"}
      ends == {i \in 1 .. N : log[i][1] = "OutputOuter"}
  IN /\ (~cfg.Multizone_Problem /\ ~cfg.Time_Domain) =>
          /\ \A i \in mons : i + 1 \in outs /\ log[i + 1][3] = log[i][3]
          /\ \A i \in outs : i - 1 \in mons
          /\ ends = {}
     /\ (cfg.Multizone_Problem /\ ~cfg.Time_Domain) =>
          /\ outs = {}
          /\ ends \in {{}, {N - 1}}
          /\ ends # {} => (log[N][1] = "SetConvergence" /\ pc = "idle")
     /\ cfg.Time_Domain => (outs = {} /\ ends = {})

\* C15: Solve of CFluidIteration and CHeatIteration calls Output once after
\* every Monitor call (the converged one included) for a single-zone steady
\* problem; for a multizone steady problem never inside the loop and exactly
\* once when Solve returns, followed by SetConvergence(false) on the flow
\* (heat) integration, whose flag is then false; never for a time-domain
\* problem.
C15_OutputCalls ==
  [][ /\ OutputPlacement(solLog', solPc')
      /\ (solPc = "after" /\ solPc' = "idle") =>
           IF cfg.Multizone_Problem /\ ~cfg.Time_Domain
             THEN /\ Len(solLog') = Len(solLog) + 2
                  /\ solLog'[Len(solLog) + 1][1] = "OutputOuter"
                  /\ solLog'[Len(solLog) + 2][1] = "SetConvergence"
                  /\ ~intConv'[IF solKind = "Fluid" THEN "FLOW_SOL" ELSE "HEAT_SOL"]
             ELSE solLog' = solLog ]_vars

\* a multizone steady Solve has returned after two passes
C15_Witness ==
  /\ solPc = "idle"
  /\ cfg.Multizone_Problem /\ ~cfg.Time_Domain
  /\ Len(SelectSeq(solLog, IsSolMonitor)) = 2
  /\ Len(SelectSeq(solLog, LAMBDA e : e[1] = "OutputOuter")) = 1
  /\ solLog[Len(solLog)][1] = "SetConvergence"
  /\ ~intConv[IF solKind = "Fluid" THEN "FLOW_SOL" ELSE "HEAT_SOL"]

\* C16: when the loop of Solve has ended and no Monitor call returned true,
\* Iterate was called exactly nInner_Iter times, the i-th call after
\* SetInnerIter(i - 1), and Monitor as often; with nInner_Iter = 0 the log
\* holds no Iterate and no Monitor call.
C16_BudgetExhausted ==
  (solPc = "after" /\ \A i \in 1 .. Len(solLog) : ~(IsSolMonitor(solLog[i]) /\ solLog[i][4])) =>
    LET its == SelectSeq(solLog, IsSolIterate)
        sets == SelectSeq(solLog, LAMBDA e : e[1] = "SetInnerIter")
    IN /\ Len(its) = cfg.nInner_Iter
       /\ Len(sets) = cfg.nInner_Iter
       /\ Len(SelectSeq(solLog, IsSolMonitor)) = cfg.nInner_Iter
       /\ \A i \in 1 .. Len(its) : its[i][3] = i - 1 /\ sets[i][3] = i - 1
       /\ \A i \in 1 .. Len(solLog) :
            IsSolIterate(solLog[i]) => (i > 1 /\ solLog[i - 1] = <<"SetInnerIter", val_iZone, solLog[i][3], FALSE>>)
       /\ cfg.nInner_Iter > 0 => cfgInnerIter[val_iZone] = cfg.nInner_Iter - 1

C16_Witness ==
  /\ solPc = "after"
  /\ cfg.nInner_Iter = 3
  /\ Len(SelectSeq(solLog, IsSolIterate)) = 3
  /\ \A i \in 1 .. Len(solLog) : ~(IsSolMonitor(solLog[i]) /\ solLog[i][4])

(***************************************************************************)
(* Iterate and RegisterInput of the discrete-adjoint iterations            *)
(* CDiscAdjFluidIteration, CDiscAdjFEAIteration and CDiscAdjHeatIteration. *)
(* An operation is the sequence of calls it makes on the solvers, the      *)
(* geometry and the integration, <<operation, solver, what>>, and the      *)
(* state is what these calls leave.                                        *)
(***************************************************************************)
Controllers == {"DiscAdjFluid", "DiscAdjFEA", "DiscAdjHeat"}

AdjointPhysics ==
  {"ADJFLOW_SOL", "ADJTURB_SOL", "ADJHEAT_SOL", "ADJRAD_SOL", "ADJFEA_SOL", "ADJMESH_SOL"}

PrimalPhysics == Physics \cup {"FEA_SOL"}

ConfigAdjoint ==
  [ FluidProblem : {TRUE},
    Kind_Solver : {"DISC_ADJ_EULER", "DISC_ADJ_RANS"},
    Frozen_Visc_Disc : BOOLEAN,
    Weakly_Coupled_Heat : BOOLEAN,
    AddRadiation : BOOLEAN,
    Time_Domain : BOOLEAN,
    nMGLevels : 0 .. MaxMGLevels ]

\* line 1753: the member turbulent of CDiscAdjFluidIteration
turbulent == cfg.Kind_Solver \in {"DISC_ADJ_RANS", "DISC_ADJ_INC_RANS"}

\* CDiscAdjFluidIteration::Iterate, lines 2069-2090
IterateCalls_Fluid ==
  (IF cfg.FluidProblem
     THEN << <<"ExtractAdjoint_Solution", "ADJFLOW_SOL", "Solution">>,
             <<"ExtractAdjoint_Variables", "ADJFLOW_SOL", "Variables">> >> ELSE <<>>)
  \o (IF turbulent /\ ~cfg.Frozen_Visc_Disc
        THEN << <<"ExtractAdjoint_Solution", "ADJTURB_SOL", "Solution">> >> ELSE <<>>)
  \o (IF cfg.Weakly_Coupled_Heat
        THEN << <<"ExtractAdjoint_Solution", "ADJHEAT_SOL", "Solution">> >> ELSE <<>>)
  \o (IF cfg.AddRadiation
        THEN << <<"ExtractAdjoint_Solution", "ADJRAD_SOL", "Solution">>,
                <<"ExtractAdjoint_Variables", "ADJRAD_SOL", "Variables">> >> ELSE <<>>)

\* CDiscAdjFEAIteration::Iterate, lines 2506-2517
IterateCalls_FEA ==
  << <<"ExtractAdjoint_Solution", "ADJFEA_SOL", "Solution">>,
     <<"ExtractAdjoint_Variables", "ADJFEA_SOL", "Variables">> >>
  \o (IF cfg.Time_Domain THEN << <<"SetConvergence", "ADJFEA_SOL", "false">> >> ELSE <<>>)

\* CDiscAdjHeatIteration::Iterate, lines 3117-3118
IterateCalls_Heat ==
  << <<"ExtractAdjoint_Solution", "ADJHEAT_SOL", "Solution">> >>

\* the primal solver an iteration differentiates
DirectSolver(controller) ==
  CASE controller = "DiscAdjFluid" -> "FLOW_SOL"
    [] controller = "DiscAdjFEA" -> "FEA_SOL"
    [] controller = "DiscAdjHeat" -> "HEAT_SOL"

IterateCalls_Mut(controller) ==
  << <<"Iterate", DirectSolver(controller), "Solution">> >>
  \o (CASE controller = "DiscAdjFluid" -> IterateCalls_Fluid
        [] controller = "DiscAdjFEA" -> IterateCalls_FEA
        [] controller = "DiscAdjHeat" -> IterateCalls_Heat)

IterateCalls(controller) ==
  CASE controller = "DiscAdjFluid" -> IterateCalls_Fluid
    [] controller = "DiscAdjFEA" -> IterateCalls_FEA
    [] controller = "DiscAdjHeat" -> IterateCalls_Heat

\* CDiscAdjFluidIteration::RegisterInput, lines 2126-2173
RegisterInput_Fluid(kind) ==
  (IF kind \in {"SOLUTION_VARIABLES", "SOLUTION_AND_MESH"}
     THEN (IF cfg.FluidProblem
             THEN << <<"Input", "ADJFLOW_SOL", "Solution">>,
                     <<"Input", "ADJFLOW_SOL", "Variables">> >> ELSE <<>>)
          \o (IF turbulent /\ ~cfg.Frozen_Visc_Disc
                THEN << <<"Input", "ADJTURB_SOL", "Solution">> >> ELSE <<>>)
          \o (IF cfg.Weakly_Coupled_Heat
                THEN << <<"Input", "ADJHEAT_SOL", "Solution">> >> ELSE <<>>)
          \o (IF cfg.AddRadiation
                THEN << <<"Input", "ADJRAD_SOL", "Solution">>,
                        <<"Input", "ADJRAD_SOL", "Variables">> >> ELSE <<>>)
     ELSE <<>>)
  \o (IF kind = "MESH_COORDS" THEN << <<"Input", "Geometry", "Coordinates">> >> ELSE <<>>)
  \o (IF kind = "MESH_DEFORM"
        THEN << <<"Input", "ADJMESH_SOL", "Solution">>,
                <<"Input", "ADJMESH_SOL", "Variables">> >> ELSE <<>>)

\* CDiscAdjHeatIteration::RegisterInput, lines 3133-3155
RegisterInput_Heat(kind) ==
  (IF kind \in {"SOLUTION_VARIABLES", "SOLUTION_AND_MESH"}
     THEN << <<"Input", "ADJHEAT_SOL", "Solution">>,
             <<"Input", "ADJHEAT_SOL", "Variables">> >> ELSE <<>>)
  \o (IF kind = "MESH_COORDS" THEN << <<"Input", "Geometry", "Coordinates">> >> ELSE <<>>)

RegisterInputOf_Mut(controller, kind) ==
  CASE controller = "DiscAdjFluid" -> RegisterInput_Fluid(kind)
    [] controller = "DiscAdjFEA" -> RegisterInput(kind)
    [] controller = "DiscAdjHeat" ->
         RegisterInput_Heat(kind)
           \o (IF kind = "SOLUTION_AND_MESH"
                 THEN << <<"Input", "Geometry", "Coordinates">> >> ELSE <<>>)

RegisterInputOf(controller, kind) ==
  CASE controller = "DiscAdjFluid" -> RegisterInput_Fluid(kind)
    [] controller = "DiscAdjFEA" -> RegisterInput(kind)
    [] controller = "DiscAdjHeat" -> RegisterInput_Heat(kind)

\* what one call leaves: the adjoint solvers take the adjoints of the
\* iteration, a direct solver would take a new solution
RECURSIVE AfterCalls(_, _, _)
AfterCalls(sol, calls, iter) ==
  IF calls = <<>> THEN sol
  ELSE LET c == Head(calls)
           next ==
             IF c[1] \in {"ExtractAdjoint_Solution", "ExtractAdjoint_Variables"}
               THEN [sol EXCEPT ![c[2]][MESH_0].Solution = <<"adjoint", iter>>]
             ELSE IF c[1] = "Iterate"
               THEN [sol EXCEPT ![c[2]] =
                       [l \in DOMAIN sol[c[2]] |-> [sol[c[2]][l] EXCEPT !.Solution = <<"direct", iter>>]]]
             ELSE sol
       IN AfterCalls(next, Tail(calls), iter)

\* the driver starts a recording
ADJ_StartRecording ==
  /\ hsCall.phase = "idle"
  /\ ~tapeActive
  /\ tapeActive' = TRUE
  /\ tape' = <<>>
  /\ hsCall' = [hsCall EXCEPT !.phase = "recording", !.op = "StartRecording"]
  /\ UNCHANGED <<CurrentRecording, srPc, srLocal, srLog, srHist>>
  /\ UNCHANGED <<hsSol, hsGeo, hsLog>>
  /\ UNCHANGED <<cfgVars, feaVars, solVars, ldVars, gustVars>>

\* RegisterInput of the iteration, called while the tape records
ADJ_RegisterInput ==
  /\ hsCall.phase = "recording"
  /\ \E kind \in RecordingKinds :
       /\ hsLog' = RegisterInputOf(hsCall.controller, kind)
       /\ tape' = tape \o WhileRecording(RegisterInputOf(hsCall.controller, kind))
       /\ hsCall' = [hsCall EXCEPT !.phase = "registered", !.op = "RegisterInput", !.kind = kind]
  /\ UNCHANGED <<tapeActive, CurrentRecording, srPc, srLocal, srLog, srHist>>
  /\ UNCHANGED <<hsSol, hsGeo>>
  /\ UNCHANGED <<cfgVars, feaVars, solVars, ldVars, gustVars>>

\* the driver stops the recording and stores its kind
ADJ_StopRecording ==
  /\ hsCall.phase = "registered"
  /\ tapeActive' = FALSE
  /\ CurrentRecording' = hsCall.kind
  /\ hsCall' = [hsCall EXCEPT !.phase = "idle", !.op = "StopRecording"]
  /\ UNCHANGED <<tape, srPc, srLocal, srLog, srHist>>
  /\ UNCHANGED <<hsSol, hsGeo, hsLog>>
  /\ UNCHANGED <<cfgVars, feaVars, solVars, ldVars, gustVars>>

\* an exchange of ghost point values: InitiateComms and CompleteComms of one
\* object for one kind of communication (lines 2228-2229)
Comms_Mut(object, kind) == << <<"InitiateComms", object, kind>> >>

Comms(object, kind) ==
  << <<"InitiateComms", object, kind>>, <<"CompleteComms", object, kind>> >>

\* lines 2217, 3164: the geometry is updated for these kinds of recording
UpdatesGeometry(kind_recording) ==
  IF kind_recording \in {"MESH_COORDS", "NONE", "SOLUTION_AND_MESH"}
    THEN << <<"UpdateGeometry", "Geometry", "">>, <<"ComputeWallDistance", "Geometry", "">> >>
    ELSE <<>>

\* the inputs of SetDependencies the iteration reads from its configuration
\* and solvers
DependencyFlags ==
  [ sst : BOOLEAN, fsi : BOOLEAN, element_based : BOOLEAN, de_effects : BOOLEAN,
    nElasticityMod : 0 .. 1, design_variable : BOOLEAN, Topology_Optimization : BOOLEAN ]

\* CDiscAdjFluidIteration::SetDependencies, lines 2205-2255
SetDependencies_Fluid(kind_recording, f) ==
  UpdatesGeometry(kind_recording)
  \o Comms("FLOW_SOL", "SOLUTION")
  \o (IF turbulent /\ ~cfg.Frozen_Visc_Disc
        THEN Comms("TURB_SOL", "SOLUTION")
             \o (IF f.sst THEN << <<"SetPrimitive_Variables", "TURB_SOL", "">> >> ELSE <<>>)
        ELSE <<>>)
  \o << <<"Preprocessing", "FLOW_SOL", "">> >>
  \o (IF turbulent /\ ~cfg.Frozen_Visc_Disc
        THEN << <<"Postprocessing", "TURB_SOL", "">> >> ELSE <<>>)
  \o (IF cfg.Weakly_Coupled_Heat
        THEN << <<"Set_Heatflux_Areas", "HEAT_SOL", "">>, <<"Preprocessing", "HEAT_SOL", "">>,
                <<"Postprocessing", "HEAT_SOL", "">> >> \o Comms("HEAT_SOL", "SOLUTION")
        ELSE <<>>)
  \o (IF cfg.AddRadiation
        THEN << <<"Postprocessing", "RAD_SOL", "">> >> \o Comms("RAD_SOL", "SOLUTION")
        ELSE <<>>)

\* CDiscAdjFEAIteration::SetDependencies, lines 2648-2756
SetDependencies_FEA(kind_recording, f) ==
  LET material(numerics) == << <<"SetMaterial_Properties", numerics, "">>,
                               <<"SetMaterial_Density", numerics, "">> >>
      models == <<"MAT_NHCOMP", "MAT_IDEALDE", "MAT_KNOWLES">>
  IN (IF f.nElasticityMod > 0
        THEN material("FEA_TERM")
             \o (IF f.element_based
                   THEN material(models[1]) \o material(models[2]) \o material(models[3])
                   ELSE <<>>)
        ELSE <<>>)
     \o (IF f.de_effects
           THEN << <<"Set_ElectricField", "FEA_TERM", "">>, <<"Set_ElectricField", "DE_TERM", "">> >>
           ELSE <<>>)
     \o (IF f.design_variable
           THEN << <<"Set_DV_Val", "FEA_TERM", "">> >>
                \o (IF f.de_effects THEN << <<"Set_DV_Val", "DE_TERM", "">> >> ELSE <<>>)
                \o (IF f.element_based
                      THEN [n \in 1 .. 3 |-> <<"Set_DV_Val", models[n], "">>] ELSE <<>>)
           ELSE <<>>)
     \o (IF f.fsi THEN << <<"PredictStruct_Displacement", "FEA_SOL", "">> >> ELSE <<>>)
     \o Comms("FEA_SOL", "SOLUTION_FEA")
     \o (IF kind_recording = "MESH_COORDS" THEN Comms("Geometry", "COORDINATES") ELSE <<>>)
     \o (IF f.Topology_Optimization /\ kind_recording = "MESH_COORDS"
           THEN << <<"SetElemVolume", "Geometry", "">>,
                   <<"FilterElementDensities", "FEA_SOL", "">> >>
           ELSE <<>>)

\* CDiscAdjHeatIteration::SetDependencies, lines 3157-3182
SetDependencies_Heat(kind_recording) ==
  UpdatesGeometry(kind_recording)
  \o << <<"Set_Heatflux_Areas", "HEAT_SOL", "">>, <<"Preprocessing", "HEAT_SOL", "">>,
        <<"Postprocessing", "HEAT_SOL", "">> >>
  \o Comms("HEAT_SOL", "SOLUTION")

SetDependenciesOf(controller, kind_recording, f) ==
  CASE controller = "DiscAdjFluid" -> SetDependencies_Fluid(kind_recording, f)
    [] controller = "DiscAdjFEA" -> SetDependencies_FEA(kind_recording, f)
    [] controller = "DiscAdjHeat" -> SetDependencies_Heat(kind_recording)

\* SetDependencies of the iteration for one kind of recording
ADJ_SetDependencies ==
  /\ hsCall.op # "SetDependencies"
  /\ \E kind_recording \in RecordingKinds : \E f \in DependencyFlags :
       /\ hsLog' = SetDependenciesOf(hsCall.controller, kind_recording, f)
       /\ hsCall' = [hsCall EXCEPT !.op = "SetDependencies", !.kind = kind_recording]
  /\ UNCHANGED <<hsSol, hsGeo>>
  /\ UNCHANGED <<cfgVars, feaVars, recVars, solVars, ldVars, gustVars>>

\* Iterate of the iteration: lines 2057-2092, 2493-2519, 3104-3119
ADJ_Iterate ==
  /\ hsCall.phase \in {"idle", "registered"}
  /\ hsCall.iter < MaxAdjointIter
  /\ hsLog' = IterateCalls(hsCall.controller)
  /\ hsSol' = [hsSol EXCEPT ![ThisSolver] =
                 AfterCalls(hsSol[ThisSolver], IterateCalls(hsCall.controller), hsCall.iter)]
  /\ hsCall' = [hsCall EXCEPT !.op = "Iterate", !.iter = hsCall.iter + 1]
  /\ UNCHANGED hsGeo
  /\ UNCHANGED <<cfgVars, feaVars, recVars, solVars, ldVars, gustVars>>

InitAdjoint ==
  /\ cfg \in ConfigAdjoint
  /\ cfgInnerIter = [z \in Zones |-> EntryInnerIter + z]
  /\ cfgTimeIter = 0
  /\ val_iZone \in Zones
  /\ FEAAtRest
  /\ RecAtRest
  /\ solPc = "idle"
  /\ solKind = "Fluid"
  /\ val_iInst = INST_0
  /\ Inner_Iter = 0
  /\ solStopCalc = FALSE
  /\ solLog = <<>>
  /\ WallFunction_Start_Iter = 0
  /\ LoadAtRest
  /\ GustAtRest
  /\ hsSol = [s \in Solvers |-> [ph \in PrimalPhysics \cup AdjointPhysics |->
                [l \in Levels |-> InitialNodes]]]
  /\ hsGeo = [s \in Solvers |-> [l \in Levels |-> InitialGeometry]]
  /\ hsLog = <<>>
  /\ \E controller \in Controllers :
       hsCall = [controller |-> controller, phase |-> "idle", op |-> "none",
                 kind |-> "NONE", iter |-> 0]

NextAdjoint ==
  \/ ADJ_StartRecording
  \/ ADJ_RegisterInput
  \/ ADJ_StopRecording
  \/ ADJ_Iterate

SpecAdjoint == InitAdjoint /\ [][NextAdjoint]_vars

\* SetDependencies taken alone, for every iteration and kind of recording
NextDependencies == ADJ_SetDependencies

SpecDependencies == InitAdjoint /\ [][NextDependencies]_vars

\* C17: Iterate of each discrete-adjoint iteration makes only calls that
\* extract adjoints (and, for the structural one in a time-domain run, resets
\* the adjoint integration's convergence): no primal Iterate and no
\* integration sweep; the tape, whether it records, the stored recording kind
\* and every primal solution are as before the call.
C17_IterateOnlyExtracts ==
  [][ (hsCall'.op = "Iterate" /\ hsCall'.iter # hsCall.iter) =>
        /\ \A i \in 1 .. Len(hsLog') :
             \/ hsLog'[i][1] \in {"ExtractAdjoint_Solution", "ExtractAdjoint_Variables"}
             \/ hsLog'[i] = <<"SetConvergence", "ADJFEA_SOL", "false">>
        /\ hsLog' # <<>>
        /\ UNCHANGED <<tape, tapeActive, CurrentRecording>>
        /\ \A s \in Zones \X Instances :
             \A ph \in {"FLOW_SOL", "TURB_SOL", "TRANS_SOL", "HEAT_SOL", "FEA_SOL"} :
               hsSol'[s][ph] = hsSol[s][ph] ]_vars

\* an adjoint iteration ran while the tape recorded, after a recording was
\* stored
C17_Witness ==
  /\ hsCall.op = "Iterate"
  /\ hsCall.iter = 2
  /\ tapeActive
  /\ tape # <<>>
  /\ CurrentRecording = "SOLUTION_VARIABLES"
  /\ hsSol[ThisSolver][CASE hsCall.controller = "DiscAdjFluid" -> "ADJFLOW_SOL"
                         [] hsCall.controller = "DiscAdjFEA" -> "ADJFEA_SOL"
                         [] OTHER -> "ADJHEAT_SOL"][MESH_0].Solution = <<"adjoint", 1>>

ConfigPreprocess ==
  { c \in [ Time_Marching : TimeMarching,
            Unst_AdjointIter : 0 .. MaxUnstAdjointIter,
            nMGLevels : 0 .. MaxMGLevels,
            Kind_Solver : {"DISC_ADJ_EULER", "DISC_ADJ_RANS"},
            Frozen_Visc_Disc : BOOLEAN,
            Weakly_Coupled_Heat : BOOLEAN,
            AddRadiation : BOOLEAN,
            Grid_Movement : BOOLEAN,
            Deform_Mesh : BOOLEAN ] :
      /\ (c.Time_Marching = "STEADY") <=> (c.Unst_AdjointIter = 0)
      \* a deforming mesh is a moving grid
      /\ c.Deform_Mesh => c.Grid_Movement
      /\ c.Frozen_Visc_Disc => c.Kind_Solver = "DISC_ADJ_RANS" }

PreprocessNodes ==
  [Solution |-> Initial, Solution_time_n |-> Initial, Solution_time_n1 |-> Initial,
   Solution_Old |-> Initial, Solution_Direct |-> Initial]

PreprocessGeometry ==
  [Coord |-> Initial, Coord_n |-> Initial, Coord_n1 |-> Initial, Coord_Old |-> Initial,
   GridVel |-> <<Initial, Initial, Initial>>]

\* line 1773: unsigned short TimeIter = config[val_iZone]->GetTimeIter()
TimeIterOf(timeIter) == timeIter % 65536

\* lines 1794-1800: Direct_Iter
Direct_IterOf_Mut(unst, timeIter) == unst - timeIter - 2

Direct_IterOf(unst, timeIter) ==
  unst - timeIter - 2 + (IF dual_time THEN 1 ELSE 0)

\* the physics whose arrays Preprocess copies, in the order of the code
CopiedPhysics ==
  <<"FLOW_SOL">> \o (IF turbulent THEN <<"TURB_SOL">> ELSE <<>>)
                 \o (IF cfg.Weakly_Coupled_Heat THEN <<"HEAT_SOL">> ELSE <<>>)

\* CSolver::LoadRestart of the flow solver with update_geo = true: the
\* solution of direct iteration k on every level and, on a moving grid, the
\* node coordinates of that iteration
RestartInto(m, z, i, k) ==
  [m EXCEPT
     !.sol[<<z, i>>] = [ph \in DOMAIN m.sol[<<z, i>>] |->
        IF ph \in Range(CopiedPhysics)
          THEN [l \in Levels |-> [m.sol[<<z, i>>][ph][l] EXCEPT !.Solution = <<"restart", k>>]]
          ELSE m.sol[<<z, i>>][ph]],
     !.geo[<<z, i>>] = [l \in Levels |->
        IF cfg.Grid_Movement
          THEN [m.geo[<<z, i>>][l] EXCEPT !.Coord = <<"restart", k>>]
          ELSE m.geo[<<z, i>>][l]]]

\* lines 2037-2051: the free stream on every level; no coordinate is touched
FreeStreamInto(m, z, i) ==
  [m EXCEPT
     !.sol[<<z, i>>] = [ph \in DOMAIN m.sol[<<z, i>>] |->
        IF ph \in Range(CopiedPhysics)
          THEN [l \in Levels |-> [m.sol[<<z, i>>][ph][l] EXCEPT !.Solution = FreeStream]]
          ELSE m.sol[<<z, i>>][ph]]]

\* LoadUnsteady_Solution(geometry, solver, config, z, i, k), lines 2018-2054;
\* a pair (z, i) that names no solver leaves every solver of the model as it is
LoadUnsteady_Solution(m, z, i, k) ==
  LET logged == [m EXCEPT !.log = Append(@, <<"LoadUnsteady_Solution", "", "", z, i, k>>)]
  IN IF <<z, i>> \notin Solvers THEN logged
     ELSE IF ReadsRestart(k) THEN RestartInto(logged, z, i, k)
     ELSE FreeStreamInto(logged, z, i)

\* one copy between the arrays of a level: the solution arrays of the copied
\* physics and, on a moving grid, the coordinate arrays
CopyOnLevel(m, l, from, to, coordFrom, coordTo) ==
  LET s == ThisSolver
  IN [m EXCEPT
        !.sol[s] = [ph \in DOMAIN m.sol[s] |->
           IF ph \in Range(CopiedPhysics)
             THEN [m.sol[s][ph] EXCEPT ![l][to] = m.sol[s][ph][l][from]]
             ELSE m.sol[s][ph]],
        !.geo[s] = IF cfg.Grid_Movement
                     THEN [m.geo[s] EXCEPT ![l][coordTo] = m.geo[s][l][coordFrom]]
                     ELSE m.geo[s],
        !.log = @ \o [n \in 1 .. Len(CopiedPhysics) |-> <<CopiedPhysics[n], from, to, l, 0, 0>>]
                  \o (IF cfg.Grid_Movement
                        THEN << <<"Coord", coordFrom, coordTo, l, 0, 0>> >> ELSE <<>>)]

\* lines 1811-1828: Set_Solution_time_n, Set_Solution_time_n1, SetCoord_n,
\* SetCoord_n1 on one level
PushBackTwice(m, l) ==
  CopyOnLevel(CopyOnLevel(m, l, "Solution", "Solution_time_n", "Coord", "Coord_n"),
              l, "Solution_time_n", "Solution_time_n1", "Coord_n", "Coord_n1")

\* lines 1837-1850: Set_Solution_time_n, SetCoord_n
PushBack(m, l) == CopyOnLevel(m, l, "Solution", "Solution_time_n", "Coord", "Coord_n")

\* lines 1884-1897: Set_OldSolution, SetCoord_Old
StoreOld(m, l) == CopyOnLevel(m, l, "Solution", "Solution_Old", "Coord", "Coord_Old")

\* lines 1901-1915: SetSolution(GetSolution_time_n), SetCoord(GetCoord_n)
CurrentFromN(m, l) == CopyOnLevel(m, l, "Solution_time_n", "Solution", "Coord_n", "Coord")

\* lines 1917-1933: Set_Solution_time_n(GetSolution_Old), SetCoord_n(GetCoord_Old)
NFromOld(m, l) == CopyOnLevel(m, l, "Solution_Old", "Solution_time_n", "Coord_Old", "Coord_n")

\* lines 1936-1950: Set_Solution_time_n(GetSolution_time_n1), SetCoord_n(GetCoord_n1)
NFromN1(m, l) == CopyOnLevel(m, l, "Solution_time_n1", "Solution_time_n", "Coord_n1", "Coord_n")

\* lines 1952-1966: Set_Solution_time_n1(GetSolution_Old), SetCoord_n1(GetCoord_Old)
N1FromOld_Mut(m, l) ==
  CopyOnLevel(m, l, "Solution_Old", "Solution_time_n1", "Coord", "Coord_n1")

N1FromOld(m, l) ==
  CopyOnLevel(m, l, "Solution_Old", "Solution_time_n1", "Coord_Old", "Coord_n1")

\* lines 1972-1974: CGeometry::SetGridVelocity on one level, from the
\* coordinates of the three time levels
SetGridVelocity(m, l) ==
  IF cfg.Grid_Movement
    THEN [m EXCEPT !.geo[ThisSolver][l].GridVel =
                      <<m.geo[ThisSolver][l].Coord, m.geo[ThisSolver][l].Coord_n,
                        m.geo[ThisSolver][l].Coord_n1>>,
                   !.log = Append(@, <<"SetGridVelocity", "", "", l, TimeIterOf(cfgTimeIter), 0>>)]
    ELSE m

\* lines 1980-2001: SetSolution_Direct of the adjoint solvers
StoreDirect(m, l) ==
  LET s == ThisSolver
      direct(adj, ph) == [m.sol[s][adj] EXCEPT ![l].Solution_Direct = m.sol[s][ph][l].Solution]
  IN [m EXCEPT !.sol[s] = [ph \in DOMAIN m.sol[s] |->
        CASE ph = "ADJFLOW_SOL" -> direct("ADJFLOW_SOL", "FLOW_SOL")
          [] ph = "ADJTURB_SOL" /\ l = MESH_0 /\ turbulent /\ ~cfg.Frozen_Visc_Disc ->
               direct("ADJTURB_SOL", "TURB_SOL")
          [] ph = "ADJHEAT_SOL" /\ l = MESH_0 /\ cfg.Weakly_Coupled_Heat ->
               direct("ADJHEAT_SOL", "HEAT_SOL")
          [] ph = "ADJRAD_SOL" /\ l = MESH_0 /\ cfg.AddRadiation ->
               direct("ADJRAD_SOL", "RAD_SOL")
          [] OTHER -> m.sol[s][ph]]]

\* for (iMesh = 0; iMesh <= nMGLevels; iMesh++) step(m, iMesh)
RECURSIVE OnEveryLevel(_, _, _)
OnEveryLevel(step(_, _), m, iMesh) ==
  IF iMesh <= cfg.nMGLevels THEN OnEveryLevel(step, step(m, iMesh), iMesh + 1) ELSE m

\* the MESH_SOL restart of a deforming mesh, lines 1857-1859 and 1870-1872
MeshRestart(m, k) ==
  IF cfg.Deform_Mesh
    THEN [m EXCEPT !.log = Append(@, <<"LoadRestart", "MESH_SOL", "", MESH_0, k, 0>>)]
    ELSE m

\* lines 1802-1860: the first adjoint time step
FirstTimeStep(m, Direct_Iter) ==
  LET n1 == IF dual_time_2nd
              THEN OnEveryLevel(PushBackTwice,
                     LoadUnsteady_Solution(m, val_iZone, val_iInst, Direct_Iter - 2), 0)
              ELSE m
      n  == IF dual_time
              THEN OnEveryLevel(PushBack,
                     LoadUnsteady_Solution(n1, val_iZone, val_iInst, Direct_Iter - 1), 0)
              ELSE n1
  IN MeshRestart(LoadUnsteady_Solution(n, val_iInst, val_iZone, Direct_Iter), Direct_Iter)

\* lines 1862-1968: a later adjoint time step of dual time stepping
LaterTimeStep(m, Direct_Iter) ==
  LET loaded  == LoadUnsteady_Solution(MeshRestart(m, Direct_Iter), val_iInst, val_iZone,
                   IF dual_time_1st THEN Direct_Iter - 1 ELSE Direct_Iter - 2)
      current == OnEveryLevel(CurrentFromN, OnEveryLevel(StoreOld, loaded, 0), 0)
  IN IF dual_time_1st
       THEN OnEveryLevel(NFromOld, current, 0)
       ELSE OnEveryLevel(N1FromOld, OnEveryLevel(NFromN1, current, 0), 0)

\* lines 2003-2013: Preprocessing of the adjoint solvers on the finest level
AdjointPreprocessing(m) ==
  LET call(ph) == <<"Preprocessing", ph, "", MESH_0, 0, 0>>
  IN [m EXCEPT !.log = @ \o << call("ADJFLOW_SOL") >>
       \o (IF turbulent /\ ~cfg.Frozen_Visc_Disc THEN << call("ADJTURB_SOL") >> ELSE <<>>)
       \o (IF cfg.Weakly_Coupled_Heat THEN << call("ADJHEAT_SOL") >> ELSE <<>>)
       \o (IF cfg.AddRadiation THEN << call("ADJRAD_SOL") >> ELSE <<>>)]

\* the body of CDiscAdjFluidIteration::Preprocess, lines 1773-2013, on the
\* arrays m0
FluidPreprocess(m0) ==
  LET TimeIter == TimeIterOf(cfgTimeIter)
      Direct_Iter == Direct_IterOf(cfg.Unst_AdjointIter, TimeIter)
      loaded == IF TimeIter = 0 THEN FirstTimeStep(m0, Direct_Iter)
                ELSE IF TimeIter > 0 /\ dual_time THEN LaterTimeStep(m0, Direct_Iter)
                ELSE m0
      unsteady == IF cfg.Time_Marching # "STEADY"
                    THEN OnEveryLevel(SetGridVelocity, loaded, 0)
                    ELSE m0
      stored == IF TimeIter = 0 \/ dual_time
                  THEN OnEveryLevel(StoreDirect, unsteady, 0)
                  ELSE unsteady
  IN AdjointPreprocessing(stored)

\* CDiscAdjFluidIteration::Preprocess, lines 1758-2016
PRE_Preprocess ==
  /\ hsCall.op \in {"none", "Advance"}
  /\ LET m == FluidPreprocess([sol |-> hsSol, geo |-> hsGeo, log |-> <<>>])
     IN /\ hsSol' = m.sol
        /\ hsGeo' = m.geo
        /\ hsLog' = m.log
        /\ hsCall' = [op |-> "Preprocess",
                      Direct_Iter |-> Direct_IterOf(cfg.Unst_AdjointIter, TimeIterOf(cfgTimeIter))]
  /\ UNCHANGED <<cfgVars, feaVars, recVars, solVars, ldVars, gustVars>>

\* the driver goes to the next adjoint time step; the arrays stay as they are
PRE_Advance ==
  /\ hsCall.op = "Preprocess"
  /\ cfgTimeIter + 1 < cfg.Unst_AdjointIter
  /\ cfgTimeIter' = cfgTimeIter + 1
  /\ hsCall' = [hsCall EXCEPT !.op = "Advance"]
  /\ UNCHANGED <<cfg, cfgInnerIter, val_iZone>>
  /\ UNCHANGED <<hsSol, hsGeo, hsLog>>
  /\ UNCHANGED <<feaVars, recVars, solVars, ldVars, gustVars>>

InitPreprocess ==
  /\ cfg \in ConfigPreprocess
  /\ cfgInnerIter = [z \in Zones |-> EntryInnerIter + z]
  /\ cfgTimeIter = 0
  /\ val_iZone \in Zones
  /\ FEAAtRest
  /\ RecAtRest
  /\ solPc = "idle"
  /\ solKind = "Fluid"
  /\ val_iInst \in Instances
  /\ Inner_Iter = 0
  /\ solStopCalc = FALSE
  /\ solLog = <<>>
  /\ WallFunction_Start_Iter = 0
  /\ LoadAtRest
  /\ GustAtRest
  /\ hsSol = [s \in Solvers |-> [ph \in PrimalPhysics \cup AdjointPhysics \cup {"RAD_SOL"} |->
                [l \in Levels |-> PreprocessNodes]]]
  /\ hsGeo = [s \in Solvers |-> [l \in Levels |-> PreprocessGeometry]]
  /\ hsLog = <<>>
  /\ hsCall = [op |-> "none", Direct_Iter |-> 0]

NextPreprocess ==
  \/ PRE_Preprocess
  \/ PRE_Advance

SpecPreprocess == InitPreprocess /\ [][NextPreprocess]_vars

\* the state a history array holds for direct iteration k
PrimalOf(k) == IF k >= 0 THEN <<"restart", k>> ELSE FreeStream

FlowNodes(l) == hsSol[ThisSolver]["FLOW_SOL"][l]

\* C19: after every Preprocess of a dual-time adjoint, run for the adjoint
\* time steps 0, 1, 2, ... in turn, the flow solver holds on every level the
\* primal solution of direct iteration D = Unst_AdjointIter - TimeIter - 1 in
\* the current solution, that of D - 1 in time level n and, for second
\* order, that of D - 2 in time level n-1, a negative index standing for
\* the free stream.
C19_HistoryBuffers ==
  (hsCall.op = "Preprocess" /\ dual_time) =>
    LET D == cfg.Unst_AdjointIter - cfgTimeIter - 1
    IN \A l \in Levels :
         /\ FlowNodes(l).Solution = PrimalOf(D)
         /\ FlowNodes(l).Solution_time_n = PrimalOf(D - 1)
         /\ dual_time_2nd => FlowNodes(l).Solution_time_n1 = PrimalOf(D - 2)

\* the same statement for the calls whose zone and instance index are equal
C19_EqualIndices ==
  (val_iZone = val_iInst) => C19_HistoryBuffers

\* a first-order call for zone 1, instance 0 has left the current solution
\* one direct iteration behind
C19_Witness ==
  /\ hsCall.op = "Preprocess"
  /\ dual_time_1st
  /\ val_iZone # val_iInst
  /\ cfgTimeIter = 0
  /\ cfg.Unst_AdjointIter >= 2
  /\ \A l \in Levels :
       /\ FlowNodes(l).Solution = PrimalOf(cfg.Unst_AdjointIter - 2)
       /\ FlowNodes(l).Solution_time_n = PrimalOf(cfg.Unst_AdjointIter - 2)

\* the coordinate array of the same name as a solution array
CoordOf(name) ==
  CASE name = "Solution" -> "Coord"
    [] name = "Solution_time_n" -> "Coord_n"
    [] name = "Solution_time_n1" -> "Coord_n1"
    [] name = "Solution_Old" -> "Coord_Old"

SolutionArrays == {"Solution", "Solution_time_n", "Solution_time_n1", "Solution_Old"}

\* the copies of the flow solution and of the coordinates in the log of a call
CopiesOf(what) == SelectSeq(hsLog, LAMBDA e : e[1] = what)

\* every copy of the flow solution has its coordinate copy, in the same order
CoordinateCopiesPaired ==
  /\ Len(CopiesOf("Coord")) = Len(CopiesOf("FLOW_SOL"))
  /\ \A n \in 1 .. Len(CopiesOf("FLOW_SOL")) :
       LET e == CopiesOf("FLOW_SOL")[n]
       IN CopiesOf("Coord")[n] = <<"Coord", CoordOf(e[2]), CoordOf(e[3]), e[4], 0, 0>>

\* a coordinate array holds the grid of the direct iteration whose solution
\* the array of the same name holds
CoordinatesFollowSolution ==
  \A l \in Levels : \A name \in SolutionArrays :
    \A k \in 0 .. MaxUnstAdjointIter :
      FlowNodes(l)[name] = <<"restart", k>> =>
        hsGeo[ThisSolver][l][CoordOf(name)] = <<"restart", k>>

\* the grid velocity of every level is computed after the last copy, from the
\* coordinates the call leaves
GridVelocityRecomputed ==
  \A l \in Levels :
    /\ \E n \in 1 .. Len(hsLog) :
         /\ hsLog[n] = <<"SetGridVelocity", "", "", l, cfgTimeIter, 0>>
         /\ \A j \in 1 .. Len(hsLog) :
              hsLog[j][1] \in {"Coord", "FLOW_SOL", "LoadUnsteady_Solution"} => j < n
    /\ hsGeo[ThisSolver][l].GridVel =
         <<hsGeo[ThisSolver][l].Coord, hsGeo[ThisSolver][l].Coord_n,
           hsGeo[ThisSolver][l].Coord_n1>>

NextGustPoint(l, pt) ==
  IF pt + 1 < cfg.nPoint THEN [iMGlevel |-> l, iPoint |-> pt + 1]
  ELSE [iMGlevel |-> l + 1, iPoint |-> 0]

\* a grid velocity minus a gust vector, component by component
MinusGust(GridVel, Gust) ==
  [iDim \in Dims |-> [GridVel[iDim] EXCEPT !.minus = Append(@, Gust[iDim])]]

ZeroGridVel == [iDim \in Dims |-> [base |-> 0, minus |-> <<>>]]

\* C22: a call of SetWind_GustField starts at point 0 of level 0; each step
\* changes the point it stands on and no other, giving it its previous grid
\* velocity (zero when the grid movement is GUST) minus the gust vector of
\* its coordinates, computed the same way on every level, and goes to the
\* next point; the call is over after the last point of level nMGLevels,
\* so that every point of every level is visited exactly once.
C22_EveryPointOnce ==
  [][ /\ (gustPc = "idle" /\ gustPc' = "loop") =>
           /\ gustPos' = [iMGlevel |-> 0, iPoint |-> 0]
           /\ gustNodes' = gustNodes
      /\ (gustPc = "loop") =>
           LET l == gustPos.iMGlevel
               pt == gustPos.iPoint
               previous == IF cfg.Kind_GridMovement = "GUST" THEN ZeroGridVel
                           ELSE gustNodes[l][pt].GridVel
           IN /\ l \in 0 .. cfg.nMGLevels /\ pt \in 0 .. (cfg.nPoint - 1)
              /\ gustNodes'[l][pt].GridVel =
                   MinusGust(previous, GustAt(gustNodes[l][pt].Coord[1]))
              /\ gustNodes'[l][pt].Coord = gustNodes[l][pt].Coord
              /\ \A k \in 0 .. cfg.nMGLevels : \A q \in 0 .. (cfg.nPoint - 1) :
                   <<k, q>> # <<l, pt>> => gustNodes'[k][q] = gustNodes[k][q]
              /\ gustPos' = NextGustPoint(l, pt)
              /\ (gustPc' = "done") <=> (l = cfg.nMGLevels /\ pt = cfg.nPoint - 1)
              /\ gustPc' \in {"loop", "done"}
      /\ (gustPc = "done") => gustNodes' = gustNodes ]_vars

\* the second call on a rigidly moving mesh of two levels is over: every
\* point has lost two gust vectors, the last of them not zero on level 1
C22_Witness ==
  /\ gustPc = "done"
  /\ cfgTimeIter = 1
  /\ cfg.Kind_GridMovement = "RIGID_MOTION"
  /\ cfg.nMGLevels >= 1
  /\ cfg.nPoint >= 2
  /\ \A l \in 0 .. cfg.nMGLevels : \A pt \in 0 .. (cfg.nPoint - 1) : \A iDim \in Dims :
       /\ gustNodes[l][pt].GridVel[iDim].base = 1
       /\ Len(gustNodes[l][pt].GridVel[iDim].minus) = 2
  /\ \E pt \in 0 .. (cfg.nPoint - 1) :
       gustNodes[1][pt].GridVel[cfg.Gust_Dir].minus[2] # Number(0)

(***************************************************************************)
(* CIteration::SetGrid_Movement and the mesh update of                     *)
(* CFluidIteration::Iterate.  The mesh is m = [geo, log]: geo[l] holds the  *)
(* generation of the coordinates of level l and the grid velocity computed *)
(* for a generation; a call of the log is <<operation, branch>>.           *)
(***************************************************************************)
SurfaceMovements ==
  { {}, {"AEROELASTIC"}, {"AEROELASTIC_RIGID_MOTION"}, {"FLUID_STRUCTURE"}, {"EXTERNAL"},
    {"EXTERNAL_ROTATION"}, {"AEROELASTIC", "FLUID_STRUCTURE"}, {"FLUID_STRUCTURE", "EXTERNAL"} }

ConfigMove ==
  { c \in [ Grid_Movement : BOOLEAN,
            Kind_GridMovement : {"RIGID_MOTION", "ROTATING_FRAME", "AEROELASTIC_RIGID_MOTION",
                                 "EXTERNAL_ROTATION", "GUST"},
            Surface_Movement : SurfaceMovements,
            Time_Marching : TimeMarching,
            Wind_Gust : BOOLEAN,
            AeroelasticIter : 1 .. MaxAeroelasticIter,
            Continuous_Adjoint : BOOLEAN,
            Discrete_Adjoint : BOOLEAN,
            Kind_Solver : {"EULER", "RANS"},
            Kind_Trans_Model : {"NO_TRANS_MODEL"},
            Frozen_Visc_Cont : {FALSE},
            Frozen_Visc_Disc : {FALSE},
            Weakly_Coupled_Heat : {FALSE},
            AddRadiation : {FALSE},
            CFL_Adapt : BOOLEAN,
            nMGLevels : {MaxMGLevels} ] :
      /\ ~(c.Continuous_Adjoint /\ c.Discrete_Adjoint)
      /\ (c.Surface_Movement # {}) => c.Grid_Movement }

\* CConfig::GetSurface_Movement(kind)
GetSurface_Movement(kind) == kind \in cfg.Surface_Movement

\* CConfig::GetAeroelastic_Simulation: the grid moves with an aeroelastic
\* surface
GetAeroelastic_Simulation ==
  /\ cfg.Grid_Movement
  /\ (GetSurface_Movement("AEROELASTIC") \/ GetSurface_Movement("AEROELASTIC_RIGID_MOTION"))

Called(m, op, branch) == [m EXCEPT !.log = Append(@, <<op, branch>>)]

\* the four rigid motions of the fine level, with analytic grid velocities
RigidMotion(m, branch) ==
  LET moved == [m EXCEPT !.geo[MESH_0].Coord = @ + 1,
                         !.geo[MESH_0].GridVel = <<"analytic", m.geo[MESH_0].Coord + 1>>]
  IN Called(Called(Called(Called(moved, "Rigid_Translation", branch),
       "Rigid_Plunging", branch), "Rigid_Pitching", branch), "Rigid_Rotation", branch)

\* CVolumetricMovement::SetVolume_Deformation: the fine level is deformed
\* when the deformation takes at least one iteration
SetVolume_Deformation(m, branch, nIterMesh) ==
  Called(IF nIterMesh # 0 THEN [m EXCEPT !.geo[MESH_0].Coord = @ + 1] ELSE m,
         "SetVolume_Deformation", branch)

\* CGeometry::SetGridVelocity on the fine level
FineGridVelocity(m, branch) ==
  Called([m EXCEPT !.geo[MESH_0].GridVel = <<"finite_difference", m.geo[MESH_0].Coord>>],
         "SetGridVelocity", branch)

\* CVolumetricMovement::UpdateMultiGrid: the coarse levels follow the fine one
UpdateMultiGrid(m, branch) ==
  Called([m EXCEPT !.geo = [l \in DOMAIN m.geo |-> m.geo[MESH_0]]], "UpdateMultiGrid", branch)

\* lines 66-93: case RIGID_MOTION of the switch
RigidBranch(m) ==
  IF cfg.Kind_GridMovement = "RIGID_MOTION"
    THEN UpdateMultiGrid(RigidMotion(m, "RIGID_MOTION"), "RIGID_MOTION")
    ELSE m

\* lines 100, 124: the aeroelastic update runs at every AeroelasticIter-th
\* inner iteration but the first
AeroelasticUpdateRuns(val_IntIter) == val_IntIter # 0 /\ val_IntIter % cfg.AeroelasticIter = 0

\* lines 96-152: the aeroelastic surface movements
AeroelasticBranch(m, val_IntIter, TimeIter) ==
  IF GetSurface_Movement("AEROELASTIC") \/ GetSurface_Movement("AEROELASTIC_RIGID_MOTION")
    THEN IF val_IntIter = 0
           THEN IF cfg.Kind_GridMovement = "AEROELASTIC_RIGID_MOTION"
                  THEN UpdateMultiGrid(RigidMotion(m, "AEROELASTIC_RIGID_MOTION"),
                                       "AEROELASTIC_RIGID_MOTION")
                  ELSE m
           ELSE IF AeroelasticUpdateRuns(val_IntIter)
                  THEN UpdateMultiGrid(FineGridVelocity(SetVolume_Deformation(
                         Called(m, "Aeroelastic", "AEROELASTIC"), "AEROELASTIC", 1),
                         "AEROELASTIC"), "AEROELASTIC")
                  ELSE m
    ELSE m

\* lines 165-171: the grid velocity of a fluid-structure deformation is
\* computed again unless the run is a continuous adjoint or the mesh static
RecomputesGridVelocity_Mut(adjoint, stat_mesh) == ~adjoint

RecomputesGridVelocity(adjoint, stat_mesh) == ~adjoint /\ ~stat_mesh

\* lines 154-182: the fluid-structure deformation
FluidStructureBranch(m, nIterMesh) ==
  IF GetSurface_Movement("FLUID_STRUCTURE")
    THEN LET deformed == SetVolume_Deformation(m, "FLUID_STRUCTURE", nIterMesh)
             stat_mesh == (nIterMesh = 0)
         IN UpdateMultiGrid(
              IF RecomputesGridVelocity(cfg.Continuous_Adjoint, stat_mesh)
                THEN FineGridVelocity(deformed, "FLUID_STRUCTURE") ELSE deformed,
              "FLUID_STRUCTURE")
    ELSE m

\* lines 184-221: the deformation read from external files
ExternalBranch(m) ==
  IF GetSurface_Movement("EXTERNAL") \/ GetSurface_Movement("EXTERNAL_ROTATION")
    THEN LET rotated == IF cfg.Kind_GridMovement = "EXTERNAL_ROTATION"
                          THEN Called([m EXCEPT !.geo[MESH_0].Coord = @ + 1],
                                      "Rigid_Rotation", "EXTERNAL")
                          ELSE m
             deformed == SetVolume_Deformation(
                           Called(rotated, "SetExternal_Deformation", "EXTERNAL"), "EXTERNAL", 1)
         IN UpdateMultiGrid(
              IF ~cfg.Continuous_Adjoint THEN FineGridVelocity(deformed, "EXTERNAL") ELSE deformed,
              "EXTERNAL")
    ELSE m

\* CIteration::SetGrid_Movement, lines 47-223
SetGrid_Movement(m, val_IntIter, TimeIter, nIterMesh) ==
  ExternalBranch(FluidStructureBranch(
    AeroelasticBranch(RigidBranch(m), val_IntIter, TimeIter), nIterMesh))

\* lines 411, 413-418: the flags of CFluidIteration::Iterate
unsteady == dual_time
frozen_visc ==
  \/ (cfg.Continuous_Adjoint /\ cfg.Frozen_Visc_Cont)
  \/ (cfg.Discrete_Adjoint /\ cfg.Frozen_Visc_Disc)
turb == IsRANS(cfg.Kind_Solver) /\ ~frozen_visc

\* lines 426-508: one iteration of the flow and of its side systems
FlowIteration(m) ==
  [m EXCEPT !.log = @
     \o << <<"MultiGrid_Iteration", "FLOW_SOL">> >>
     \o (IF turb THEN << <<"SingleGrid_Iteration", "TURB_SOL">> >> ELSE <<>>)
     \o (IF turb /\ cfg.Kind_Trans_Model = "LM"
           THEN << <<"SingleGrid_Iteration", "TRANS_SOL">> >> ELSE <<>>)
     \o (IF cfg.Weakly_Coupled_Heat THEN << <<"SingleGrid_Iteration", "HEAT_SOL">> >> ELSE <<>>)
     \o (IF cfg.AddRadiation THEN << <<"SingleGrid_Iteration", "RAD_SOL">> >> ELSE <<>>)
     \o (IF cfg.Discrete_Adjoint
           THEN << <<"Preprocessing", "FLOW_SOL">>, <<"NonDimensional_Parameters", "FLOW_SOL">> >>
           ELSE <<>>)
     \o (IF cfg.CFL_Adapt /\ ~cfg.Discrete_Adjoint
           THEN << <<"AdaptCFLNumber", "FLOW_SOL">> >> ELSE <<>>)]

\* line 521: the gust is applied again
ReappliesGust_Mut(InnerIter) == InnerIter % cfg.AeroelasticIter = 0

ReappliesGust(InnerIter) == InnerIter % cfg.AeroelasticIter = 0 /\ InnerIter # 0

\* lines 511-525: the dynamic mesh update of an aeroelastic simulation
MeshUpdate(m, InnerIter, TimeIter, nIterMesh) ==
  IF cfg.Grid_Movement /\ GetAeroelastic_Simulation /\ unsteady
    THEN LET moved == SetGrid_Movement(m, InnerIter, TimeIter, nIterMesh)
         IN IF cfg.Wind_Gust /\ ReappliesGust(InnerIter)
              THEN Called(moved, "SetWind_GustField", "Iterate")
              ELSE moved
    ELSE m

\* CFluidIteration::Iterate, lines 398-527
MOVE_Iterate ==
  /\ hsCall.op # "Iterate"
  /\ \E nIterMesh \in 0 .. 1 :
       LET m == MeshUpdate(FlowIteration([geo |-> hsGeo, log |-> <<>>]),
                           cfgInnerIter[val_iZone], cfgTimeIter, nIterMesh)
       IN /\ hsGeo' = m.geo
          /\ hsLog' = m.log
          /\ hsCall' = [op |-> "Iterate", nIterMesh |-> nIterMesh, prev |-> hsGeo]
  /\ UNCHANGED hsSol
  /\ UNCHANGED <<cfgVars, feaVars, recVars, solVars, ldVars, gustVars>>

\* a call of SetGrid_Movement by another operation of the iteration
MOVE_SetGrid_Movement ==
  /\ hsCall.op = "none"
  /\ cfg.Grid_Movement
  /\ \E nIterMesh \in 0 .. 1 :
       LET m == SetGrid_Movement([geo |-> hsGeo, log |-> <<>>],
                                 cfgInnerIter[val_iZone], cfgTimeIter, nIterMesh)
       IN /\ hsGeo' = m.geo
          /\ hsLog' = m.log
          /\ hsCall' = [op |-> "SetGrid_Movement", nIterMesh |-> nIterMesh, prev |-> hsGeo]
  /\ UNCHANGED hsSol
  /\ UNCHANGED <<cfgVars, feaVars, recVars, solVars, ldVars, gustVars>>

\* the loop of the driver goes to the next inner iteration
MOVE_Advance ==
  /\ hsCall.op = "Iterate"
  /\ cfgInnerIter[val_iZone] < MaxInnerIter
  /\ cfgInnerIter' = [cfgInnerIter EXCEPT ![val_iZone] = @ + 1]
  /\ hsCall' = [hsCall EXCEPT !.op = "none"]
  /\ UNCHANGED <<cfg, cfgTimeIter, val_iZone>>
  /\ UNCHANGED <<hsSol, hsGeo, hsLog>>
  /\ UNCHANGED <<feaVars, recVars, solVars, ldVars, gustVars>>

InitMove ==
  /\ cfg \in ConfigMove
  /\ cfgInnerIter = [z \in Zones |-> 0]
  /\ cfgTimeIter = 0
  /\ val_iZone = ZONE_0
  /\ FEAAtRest
  /\ RecAtRest
  /\ SolveAtRest
  /\ LoadAtRest
  /\ GustAtRest
  /\ hsSol = <<>>
  /\ hsGeo = [l \in Levels |-> [Coord |-> 0, GridVel |-> <<"analytic", 0>>]]
  /\ hsLog = <<>>
  /\ hsCall = [op |-> "none", nIterMesh |-> 0, prev |-> hsGeo]

NextMove ==
  \/ MOVE_Iterate
  \/ MOVE_SetGrid_Movement
  \/ MOVE_Advance

SpecMove == InitMove /\ [][NextMove]_vars

\* the places of a call in the log of the running operation
PlacesOf(op) == {n \in 1 .. Len(hsLog) : hsLog[n][1] = op}

\* C23: Iterate applies the wind gust again only when grid movement, the
\* aeroelastic simulation, dual time stepping (the flag unsteady of
\* Iterate) and the wind gust are all enabled, and then exactly when
\* InnerIter is not 0 and is a multiple of the aeroelastic interval; these
\* are the iterations at which the aeroelastic mesh update runs, and the
\* gust is applied once, after every call of that mesh update.
C23_GustCadence ==
  (hsCall.op = "Iterate") =>
    LET InnerIter == cfgInnerIter[val_iZone]
        enabled == /\ cfg.Grid_Movement
                   /\ GetAeroelastic_Simulation
                   /\ cfg.Time_Marching \in {"DT_STEPPING_1ST", "DT_STEPPING_2ND"}
                   /\ cfg.Wind_Gust
    IN /\ (PlacesOf("SetWind_GustField") # {}) <=>
            (enabled /\ InnerIter # 0 /\ InnerIter % cfg.AeroelasticIter = 0)
       /\ cfg.Wind_Gust =>
            ((PlacesOf("SetWind_GustField") # {}) <=> (PlacesOf("Aeroelastic") # {}))
       /\ (PlacesOf("SetWind_GustField") # {}) =>
            /\ PlacesOf("SetWind_GustField") = {Len(hsLog)}
            /\ \E n \in PlacesOf("UpdateMultiGrid") :
                 hsLog[n][2] = "AEROELASTIC" /\ n < Len(hsLog)

\* inner iteration 2 with an interval of 2: the mesh was updated and the
\* gust applied after it
C23_Witness ==
  /\ hsCall.op = "Iterate"
  /\ cfgInnerIter[val_iZone] = 2
  /\ cfg.AeroelasticIter = 2
  /\ PlacesOf("Aeroelastic") # {}
  /\ hsLog[Len(hsLog)] = <<"SetWind_GustField", "Iterate">>
  /\ hsGeo[MESH_0].Coord > hsCall.prev[MESH_0].Coord

\* the branches of SetGrid_Movement that move nodes of the fine level
MeshBranches ==
  {"RIGID_MOTION", "AEROELASTIC_RIGID_MOTION", "AEROELASTIC", "FLUID_STRUCTURE", "EXTERNAL"}

CallsOfBranch(b) == {n \in 1 .. Len(hsLog) : hsLog[n][2] = b}

\* the branches a call of SetGrid_Movement at inner iteration iter goes into
BranchesTaken(iter) ==
  {b \in MeshBranches :
     CASE b = "RIGID_MOTION" -> cfg.Kind_GridMovement = "RIGID_MOTION"
       [] b = "AEROELASTIC_RIGID_MOTION" ->
            /\ cfg.Surface_Movement \cap {"AEROELASTIC", "AEROELASTIC_RIGID_MOTION"} # {}
            /\ iter = 0
            /\ cfg.Kind_GridMovement = "AEROELASTIC_RIGID_MOTION"
       [] b = "AEROELASTIC" ->
            /\ cfg.Surface_Movement \cap {"AEROELASTIC", "AEROELASTIC_RIGID_MOTION"} # {}
            /\ iter # 0
            /\ iter % cfg.AeroelasticIter = 0
       [] b = "FLUID_STRUCTURE" -> "FLUID_STRUCTURE" \in cfg.Surface_Movement
       [] b = "EXTERNAL" -> cfg.Surface_Movement \cap {"EXTERNAL", "EXTERNAL_ROTATION"} # {}}

\* C26: a call of SetGrid_Movement goes into the branches its configuration
\* and inner iteration select; the calls of a branch that moves nodes of the
\* fine level stand together in the log and end with the one UpdateMultiGrid
\* of the branch, so that the coarse levels follow the fine one before the
\* next branch and before the return; the fluid-structure branch computes
\* the grid velocity again exactly when the run is no continuous adjoint and
\* the deformation took more than zero iterations, and else leaves the
\* grid velocity as it was.
C26_MultiGridFollows ==
  (hsCall.op = "SetGrid_Movement") =>
    /\ {b \in MeshBranches : CallsOfBranch(b) # {}} = BranchesTaken(cfgInnerIter[val_iZone])
    /\ \A b \in BranchesTaken(cfgInnerIter[val_iZone]) :
         \E first \in CallsOfBranch(b) : \E last \in CallsOfBranch(b) :
           /\ CallsOfBranch(b) = first .. last
           /\ hsLog[last] = <<"UpdateMultiGrid", b>>
           /\ \A n \in first .. (last - 1) : hsLog[n][1] # "UpdateMultiGrid"
           /\ \E n \in first .. (last - 1) :
                hsLog[n][1] \in {"Rigid_Rotation", "SetVolume_Deformation"}
    /\ (BranchesTaken(cfgInnerIter[val_iZone]) # {}) =>
         \A l \in 0 .. cfg.nMGLevels : hsGeo[l] = hsGeo[0]
    /\ ("FLUID_STRUCTURE" \in cfg.Surface_Movement) =>
         /\ (\E n \in 1 .. Len(hsLog) : hsLog[n] = <<"SetGridVelocity", "FLUID_STRUCTURE">>)
              <=> (~cfg.Continuous_Adjoint /\ hsCall.nIterMesh > 0)
         /\ (BranchesTaken(cfgInnerIter[val_iZone]) = {"FLUID_STRUCTURE"}
               /\ ~(~cfg.Continuous_Adjoint /\ hsCall.nIterMesh > 0)) =>
              hsGeo[0].GridVel = hsCall.prev[0].GridVel

\* a call went through the aeroelastic and the fluid-structure branch; the
\* static mesh of the second kept the grid velocity the first had computed
C26_Witness ==
  /\ hsCall.op = "SetGrid_Movement"
  /\ BranchesTaken(cfgInnerIter[val_iZone]) = {"AEROELASTIC", "FLUID_STRUCTURE"}
  /\ hsCall.nIterMesh = 0
  /\ cfg.nMGLevels >= 1
  /\ hsGeo[cfg.nMGLevels].Coord = hsCall.prev[0].Coord + 1
  /\ hsGeo[cfg.nMGLevels].GridVel = <<"finite_difference", hsGeo[0].Coord>>
  /\ Len(SelectSeq(hsLog, LAMBDA e : e[1] = "UpdateMultiGrid")) = 2

\* C24: in SetDependencies of the fluid, the heat and the structural
\* iteration every InitiateComms is followed at once by the CompleteComms of
\* the same object for the same kind of communication, and every
\* CompleteComms comes right after its InitiateComms, so that no exchange is
\* open when SetDependencies returns.
C24_CommsPaired ==
  (hsCall.op = "SetDependencies") =>
    \A n \in 1 .. Len(hsLog) :
      /\ hsLog[n][1] = "InitiateComms" =>
           /\ n < Len(hsLog)
           /\ hsLog[n + 1] = <<"CompleteComms", hsLog[n][2], hsLog[n][3]>>
      /\ hsLog[n][1] = "CompleteComms" =>
           /\ n > 1
           /\ hsLog[n - 1] = <<"InitiateComms", hsLog[n][2], hsLog[n][3]>>

\* the fluid iteration with turbulence, heat and radiation has made four
\* exchanges, with other calls between them
C24_Witness ==
  /\ hsCall.op = "SetDependencies"
  /\ hsCall.controller = "DiscAdjFluid"
  /\ Len(SelectSeq(hsLog, LAMBDA e : e[1] = "InitiateComms")) = 4
  /\ Len(SelectSeq(hsLog, LAMBDA e : e[1] = "CompleteComms")) = 4
  /\ hsLog[Len(hsLog)] = <<"CompleteComms", "RAD_SOL", "SOLUTION">>
  /\ \E n \in 1 .. Len(hsLog) : hsLog[n] = <<"SetPrimitive_Variables", "TURB_SOL", "">>

(***************************************************************************)
(* CFEAIteration::Update and CAdjFluidIteration::Update: the end of the    *)
(* time of the simulation.                                                 *)
(***************************************************************************)
ConfigTimeUpdate ==
  [ Time_Domain : BOOLEAN,
    FSI_Simulation : BOOLEAN,
    Kind_TimeIntScheme_FEA : {"NEWMARK_IMPLICIT", "GENERALIZED_ALPHA"},
    Time_Marching : TimeMarching,
    Delta_DynTime : 1 .. MaxDeltaTime,
    Total_DynTime : 1 .. MaxTotalTime,
    Delta_UnstTime : 1 .. MaxDeltaTime,
    Total_UnstTime : 1 .. MaxTotalTime,
    nMGLevels : {MaxMGLevels} ]

\* lines 1438-1440 and 1745-1746: Physical_t = (TimeIter+1)*Physical_dt has
\* reached the total time
TotalTimeReached_Mut(TimeIter, Physical_dt, Total) == TimeIter * Physical_dt >= Total

TotalTimeReached(TimeIter, Physical_dt, Total) == (TimeIter + 1) * Physical_dt >= Total

\* CFEAIteration::Update, lines 1410-1451
TUP_Update_FEA ==
  /\ hsCall.op = "none"
  /\ hsCall.kind = "FEA"
  /\ IF cfg.Time_Domain
       THEN /\ hsLog' = << <<"SetStructural_Solver", "FEA_SOL", MESH_0>>,
                           <<"SetConvergence", "FEA_SOL", MESH_0>> >>
                        \o (IF TotalTimeReached(cfgTimeIter, cfg.Delta_DynTime, cfg.Total_DynTime)
                              THEN << <<"SetConvergence", "FEA_SOL", MESH_0>> >> ELSE <<>>)
            /\ intConv' = [intConv EXCEPT !.FEA_SOL =
                             TotalTimeReached(cfgTimeIter, cfg.Delta_DynTime, cfg.Total_DynTime)]
       ELSE /\ hsLog' = IF cfg.FSI_Simulation /\ cfg.Kind_TimeIntScheme_FEA = "NEWMARK_IMPLICIT"
                          THEN << <<"ImplicitNewmark_Relaxation", "FEA_SOL", MESH_0>> >>
                          ELSE <<>>
            /\ intConv' = intConv
  /\ hsCall' = [hsCall EXCEPT !.op = "Update", !.conv = intConv]
  /\ UNCHANGED <<hsSol, hsGeo>>
  /\ UNCHANGED <<feaPc, IntIter, iIncrement, StopCalc, CurIter, feaLog, feaLoad, outConv>>
  /\ UNCHANGED <<cfgVars, recVars, solVars, ldVars, gustVars>>

\* CAdjFluidIteration::Update, lines 1716-1748
TUP_Update_AdjFluid ==
  /\ hsCall.op = "none"
  /\ hsCall.kind = "AdjFluid"
  /\ IF dual_time
       THEN /\ hsSol' = [hsSol EXCEPT ![ThisSolver]["ADJFLOW_SOL"] =
                           [l \in Levels |-> SetDualTime_Solver(hsSol[ThisSolver]["ADJFLOW_SOL"][l])]]
            /\ hsLog' = DualTimeCalls("ADJFLOW_SOL", 0)
                        \o (IF TotalTimeReached(cfgTimeIter, cfg.Delta_UnstTime, cfg.Total_UnstTime)
                              THEN << <<"SetConvergence", "ADJFLOW_SOL", MESH_0>> >> ELSE <<>>)
            /\ intConv' = [intConv EXCEPT !.ADJFLOW_SOL =
                             TotalTimeReached(cfgTimeIter, cfg.Delta_UnstTime, cfg.Total_UnstTime)]
       ELSE /\ hsSol' = hsSol
            /\ hsLog' = <<>>
            /\ intConv' = intConv
  /\ hsCall' = [hsCall EXCEPT !.op = "Update", !.conv = intConv]
  /\ UNCHANGED hsGeo
  /\ UNCHANGED <<feaPc, IntIter, iIncrement, StopCalc, CurIter, feaLog, feaLoad, outConv>>
  /\ UNCHANGED <<cfgVars, recVars, solVars, ldVars, gustVars>>

\* the driver goes to the next time step; the integration of that step
\* leaves its convergence flag either way
TUP_Advance ==
  /\ hsCall.op = "Update"
  /\ cfgTimeIter < MaxTimeIter
  /\ cfgTimeIter' = cfgTimeIter + 1
  /\ \E c \in BOOLEAN :
       intConv' = [intConv EXCEPT ![IF hsCall.kind = "FEA" THEN "FEA_SOL" ELSE "ADJFLOW_SOL"] = c]
  /\ hsSol' = [hsSol EXCEPT ![ThisSolver]["ADJFLOW_SOL"] =
                 [l \in Levels |-> [hsSol[ThisSolver]["ADJFLOW_SOL"][l] EXCEPT
                                      !.Solution = <<"adjoint", cfgTimeIter + 1>>]]]
  /\ hsCall' = [hsCall EXCEPT !.op = "none"]
  /\ UNCHANGED <<hsGeo, hsLog>>
  /\ UNCHANGED <<cfg, cfgInnerIter, val_iZone>>
  /\ UNCHANGED <<feaPc, IntIter, iIncrement, StopCalc, CurIter, feaLog, feaLoad, outConv>>
  /\ UNCHANGED <<recVars, solVars, ldVars, gustVars>>

InitTimeUpdate ==
  /\ cfg \in ConfigTimeUpdate
  /\ cfgInnerIter = [z \in Zones |-> 0]
  /\ cfgTimeIter = 0
  /\ val_iZone = ZONE_0
  /\ FEAAtRest
  /\ RecAtRest
  /\ SolveAtRest
  /\ LoadAtRest
  /\ GustAtRest
  /\ hsSol = [s \in Solvers |-> [ph \in {"ADJFLOW_SOL"} |-> [l \in Levels |-> InitialNodes]]]
  /\ hsGeo = <<>>
  /\ hsLog = <<>>
  /\ \E kind \in {"FEA", "AdjFluid"} :
       hsCall = [op |-> "none", kind |-> kind, conv |-> intConv]

NextTimeUpdate ==
  \/ TUP_Update_FEA
  \/ TUP_Update_AdjFluid
  \/ TUP_Advance

SpecTimeUpdate == InitTimeUpdate /\ [][NextTimeUpdate]_vars

\* C25: after CFEAIteration::Update of a time-domain run the convergence
\* flag of FEA_SOL, and after CAdjFluidIteration::Update under dual time
\* stepping that of ADJFLOW_SOL, is true exactly when (TimeIter + 1) * dt >=
\* the configured total time; in every other mode the Update leaves every
\* convergence flag as it was.
C25_TotalTimeConvergence ==
  (hsCall.op = "Update") =>
    /\ (hsCall.kind = "FEA" /\ cfg.Time_Domain) =>
         (intConv.FEA_SOL <=> ((cfgTimeIter + 1) * cfg.Delta_DynTime >= cfg.Total_DynTime))
    /\ (hsCall.kind = "AdjFluid" /\ cfg.Time_Marching \in {"DT_STEPPING_1ST", "DT_STEPPING_2ND"}) =>
         (intConv.ADJFLOW_SOL <=> ((cfgTimeIter + 1) * cfg.Delta_UnstTime >= cfg.Total_UnstTime))
    /\ (hsCall.kind = "FEA" /\ ~cfg.Time_Domain) => intConv = hsCall.conv
    /\ (hsCall.kind = "AdjFluid" /\ cfg.Time_Marching \in {"STEADY", "TIME_STEPPING"}) =>
         intConv = hsCall.conv

\* the second Update of a time-domain structural run reaches the total time
\* of three steps and sets a flag the integration had left false
C25_Witness ==
  /\ hsCall.op = "Update"
  /\ hsCall.kind = "FEA"
  /\ cfg.Time_Domain
  /\ cfgTimeIter = 1
  /\ cfg.Delta_DynTime = 2
  /\ cfg.Total_DynTime = 3
  /\ ~hsCall.conv.FEA_SOL
  /\ intConv.FEA_SOL

(***************************************************************************)
(* CFEAIteration::Iterate under discrete adjoint.                          *)
(***************************************************************************)
AdjointIterateReturned == feaPc = "done" /\ cfg.Discrete_Adjoint

\* no Monitor call, no step of the incremental-load branch, and on the
\* nonlinear path the inner-iteration counter of the zone is the one kept at
\* entry
AdjointIterateFrame ==
  /\ SelectSeq(feaLog, IsMonitor) = <<>>
  /\ \A i \in 1 .. Len(feaLog) :
       feaLog[i][1] \notin {"SetLoad_Increment", "SetForceCoeff", "SetInitialCondition", "MeetCriteria"}
  /\ feaLoad = [idxIncrement |-> 0, loadIncrement |-> FullLoad, ForceCoeff |-> FullLoad]
  /\ (cfg.GeometricConditions = "LARGE_DEFORMATIONS") => cfgInnerIter[val_iZone] = CurIter

\* C27 as stated: under discrete adjoint CFEAIteration::Iterate performs
\* exactly one Structural_Iteration and no Monitor call, linear or nonlinear,
\* never enters the incremental-load branch, and on the nonlinear path leaves
\* the inner-iteration counter of the zone at its value at entry.
C27_OneAdjointIteration ==
  AdjointIterateReturned =>
    /\ Len(SelectSeq(feaLog, IsIter)) = 1
    /\ AdjointIterateFrame

\* C27, amended: as stated, except that the nonlinear path performs its one
\* Structural_Iteration only when nInner_Iter >= 1; with nInner_Iter = 0 the
\* Newton-Raphson loop is not entered and no Structural_Iteration is performed.
C27_OneAdjointIterationIfAny ==
  AdjointIterateReturned =>
    /\ Len(SelectSeq(feaLog, IsIter)) =
         (IF cfg.GeometricConditions = "SMALL_DEFORMATIONS" \/ cfg.nInner_Iter >= 1 THEN 1 ELSE 0)
    /\ AdjointIterateFrame

\* a nonlinear adjoint run with incremental loading configured and room for
\* two Newton-Raphson iterations: one iteration at inner iteration 0, and the
\* counter back at its entry value
C27_Witness ==
  /\ AdjointIterateReturned
  /\ cfg.GeometricConditions = "LARGE_DEFORMATIONS"
  /\ cfg.IncrementalLoad
  /\ cfg.nInner_Iter >= 2
  /\ Len(SelectSeq(feaLog, IsIter)) = 1
  /\ \E i \in 1 .. Len(feaLog) : feaLog[i] = <<"SetInnerIter", val_iZone, 0>>
  /\ cfgInnerIter[val_iZone] = EntryInnerIter
  /\ EntryInnerIter # 0

\* the history loads of the last Preprocess, as <<zone, instance, iteration>>
HistoryLoads ==
  {<<hsLog[n][4], hsLog[n][5], hsLog[n][6]>> :
     n \in {x \in 1 .. Len(hsLog) : hsLog[x][1] = "LoadUnsteady_Solution"}}

\* C28: every history load of CDiscAdjFluidIteration::Preprocess called for
\* the key (zone z, instance i) is a load for that key (z, i), also when
\* z # i; no load is one for (i, z).
C28_LoadsOwnKey ==
  (hsCall.op = "Preprocess") =>
    \A ld \in HistoryLoads : ld[1] = val_iZone /\ ld[2] = val_iInst

\* a Preprocess for zone z and instance i # z whose loads include one for
\* (i, z)
C28_Witness ==
  /\ hsCall.op = "Preprocess"
  /\ val_iZone # val_iInst
  /\ \E ld \in HistoryLoads : ld[1] = val_iInst /\ ld[2] = val_iZone

(***************************************************************************)
(* CDiscAdjHeatIteration::Preprocess, next to the weakly coupled heat      *)
(* history of CDiscAdjFluidIteration::Preprocess.  The two controllers run *)
(* on arrays of their own, from the same initial arrays and the same       *)
(* restart files: hsSol are the arrays of the fluid controller and         *)
(* hsCall.heat those of the heat controller.                               *)
(***************************************************************************)
\* CDiscAdjHeatIteration::LoadUnsteady_Solution, lines 3070-3101
Heat_LoadUnsteady_Solution(m, z, i, k) ==
  LET value == IF ReadsRestart(k) THEN <<"restart", k>> ELSE FreeStream
  IN [m EXCEPT
        !.sol[<<z, i>>]["HEAT_SOL"] =
            [l \in Levels |-> [m.sol[<<z, i>>]["HEAT_SOL"][l] EXCEPT !.Solution = value]],
        !.log = Append(@, <<"LoadUnsteady_Solution", "", "", z, i, k>>)]

\* one copy between the arrays of HEAT_SOL on a level
HeatCopy(m, l, from, to) ==
  [m EXCEPT !.sol[ThisSolver]["HEAT_SOL"][l][to] = m.sol[ThisSolver]["HEAT_SOL"][l][from],
            !.log = Append(@, <<"HEAT_SOL", from, to, l, 0, 0>>)]

\* lines 2982-2985: Set_Solution_time_n, Set_Solution_time_n1
HeatPushBackTwice(m, l) ==
  HeatCopy(HeatCopy(m, l, "Solution", "Solution_time_n"), l, "Solution_time_n", "Solution_time_n1")

\* lines 2995-2997: Set_Solution_time_n
HeatPushBack(m, l) == HeatCopy(m, l, "Solution", "Solution_time_n")

\* lines 3015-3016: Set_OldSolution
HeatStoreOld(m, l) == HeatCopy(m, l, "Solution", "Solution_Old")

\* lines 3020-3025: SetSolution(GetSolution_time_n)
HeatCurrentFromN(m, l) == HeatCopy(m, l, "Solution_time_n", "Solution")

\* lines 3026-3034 (first order) and 3036-3043 (second order):
\* Set_Solution_time_n(GetSolution_time_n1)
HeatNFromN1(m, l) == HeatCopy(m, l, "Solution_time_n1", "Solution_time_n")

\* lines 3044-3050: Set_Solution_time_n1(GetSolution_Old)
HeatN1FromOld(m, l) == HeatCopy(m, l, "Solution_Old", "Solution_time_n1")

\* lines 2972-3002: the first adjoint time step
HeatFirstTimeStep(m, Direct_Iter) ==
  LET n1 == IF dual_time_2nd
              THEN OnEveryLevel(HeatPushBackTwice,
                     Heat_LoadUnsteady_Solution(m, val_iZone, val_iInst, Direct_Iter - 2), 0)
              ELSE m
      n  == IF dual_time
              THEN OnEveryLevel(HeatPushBack,
                     Heat_LoadUnsteady_Solution(n1, val_iZone, val_iInst, Direct_Iter - 1), 0)
              ELSE n1
  IN Heat_LoadUnsteady_Solution(n, val_iZone, val_iInst, Direct_Iter)

\* lines 3007-3051: a later adjoint time step of dual time stepping
HeatLaterTimeStep(m, Direct_Iter) ==
  LET loaded  == Heat_LoadUnsteady_Solution(m, val_iZone, val_iInst, Direct_Iter - 2)
      current == OnEveryLevel(HeatCurrentFromN, OnEveryLevel(HeatStoreOld, loaded, 0), 0)
  IN IF dual_time_1st
       THEN OnEveryLevel(HeatNFromN1, current, 0)
       ELSE OnEveryLevel(HeatN1FromOld, OnEveryLevel(HeatNFromN1, current, 0), 0)

\* the body of CDiscAdjHeatIteration::Preprocess, lines 2952-3066, on the
\* arrays m0
HeatPreprocess(m0) ==
  LET TimeIter == TimeIterOf(cfgTimeIter)
      Direct_Iter == Direct_IterOf(cfg.Unst_AdjointIter, TimeIter)
      loaded == IF cfg.Time_Marching = "STEADY" THEN m0
                ELSE IF TimeIter = 0 THEN HeatFirstTimeStep(m0, Direct_Iter)
                ELSE IF TimeIter > 0 /\ dual_time THEN HeatLaterTimeStep(m0, Direct_Iter)
                ELSE m0
      stored == IF TimeIter = 0 \/ dual_time
                  THEN [loaded EXCEPT !.sol[ThisSolver]["ADJHEAT_SOL"][MESH_0].Solution_Direct =
                                         loaded.sol[ThisSolver]["HEAT_SOL"][MESH_0].Solution]
                  ELSE loaded
  IN [stored EXCEPT !.log = Append(@, <<"Preprocessing", "ADJHEAT_SOL", "", MESH_0, 0, 0>>)]

\* CDiscAdjFluidIteration::Preprocess, lines 1758-2016, of the coupled run
HH_FluidPreprocess ==
  /\ hsCall.op \in {"none", "Advance"}
  /\ LET m == FluidPreprocess([sol |-> hsSol, geo |-> hsGeo, log |-> <<>>])
     IN /\ hsSol' = m.sol
        /\ hsGeo' = m.geo
        /\ hsLog' = m.log
  /\ hsCall' = [hsCall EXCEPT !.op = "Fluid"]
  /\ UNCHANGED <<cfgVars, feaVars, recVars, solVars, ldVars, gustVars>>

\* CDiscAdjHeatIteration::Preprocess, lines 2940-3066, of the heat run at
\* the same adjoint time step
HH_HeatPreprocess ==
  /\ hsCall.op = "Fluid"
  /\ LET m == HeatPreprocess([sol |-> hsCall.heat.sol, geo |-> hsGeo, log |-> <<>>])
     IN hsCall' = [op |-> "Preprocess", heat |-> [sol |-> m.sol, log |-> m.log]]
  /\ UNCHANGED <<hsSol, hsGeo, hsLog>>
  /\ UNCHANGED <<cfgVars, feaVars, recVars, solVars, ldVars, gustVars>>

\* both drivers go to the next adjoint time step; the arrays stay as they are
HH_Advance ==
  /\ hsCall.op = "Preprocess"
  /\ cfgTimeIter + 1 < cfg.Unst_AdjointIter
  /\ cfgTimeIter' = cfgTimeIter + 1
  /\ hsCall' = [hsCall EXCEPT !.op = "Advance"]
  /\ UNCHANGED <<cfg, cfgInnerIter, val_iZone>>
  /\ UNCHANGED <<hsSol, hsGeo, hsLog>>
  /\ UNCHANGED <<feaVars, recVars, solVars, ldVars, gustVars>>

InitHeatHistory ==
  /\ cfg \in {c \in ConfigPreprocess : c.Weakly_Coupled_Heat /\ ~c.AddRadiation /\ ~c.Deform_Mesh}
  /\ cfgInnerIter = [z \in Zones |-> EntryInnerIter + z]
  /\ cfgTimeIter = 0
  /\ val_iZone \in Zones
  /\ FEAAtRest
  /\ RecAtRest
  /\ solPc = "idle"
  /\ solKind = "Fluid"
  /\ val_iInst \in Instances
  /\ Inner_Iter = 0
  /\ solStopCalc = FALSE
  /\ solLog = <<>>
  /\ WallFunction_Start_Iter = 0
  /\ LoadAtRest
  /\ GustAtRest
  /\ hsSol = [s \in Solvers |-> [ph \in PrimalPhysics \cup AdjointPhysics \cup {"RAD_SOL"} |->
                [l \in Levels |-> PreprocessNodes]]]
  /\ hsGeo = [s \in Solvers |-> [l \in Levels |-> PreprocessGeometry]]
  /\ hsLog = <<>>
  /\ hsCall = [op |-> "none", heat |-> [sol |-> hsSol, log |-> <<>>]]

NextHeatHistory ==
  \/ HH_FluidPreprocess
  \/ HH_HeatPreprocess
  \/ HH_Advance

SpecHeatHistory == InitHeatHistory /\ [][NextHeatHistory]_vars

\* the direct iterations a log of Preprocess loads
LoadedIterations(log) ==
  {log[n][6] : n \in {x \in 1 .. Len(log) : log[x][1] = "LoadUnsteady_Solution"}}

\* the heat history of the arrays sol: current, time n and time n-1
HeatBuffers(sol) ==
  [l \in 0 .. cfg.nMGLevels |->
     <<sol[ThisSolver]["HEAT_SOL"][l].Solution,
       sol[ThisSolver]["HEAT_SOL"][l].Solution_time_n,
       sol[ThisSolver]["HEAT_SOL"][l].Solution_time_n1>>]

BothPreprocessed == hsCall.op = "Preprocess" /\ dual_time /\ cfgTimeIter > 0

\* C29: for the same dual time order, the same TimeIter > 0 and the same
\* restart files, CDiscAdjHeatIteration::Preprocess loads the direct
\* iteration that CDiscAdjFluidIteration::Preprocess loads, and the current,
\* time-n and time-n1 heat arrays of the two controllers are equal.
C29_HeatHistoriesAgree ==
  BothPreprocessed =>
    /\ LoadedIterations(hsCall.heat.log) = LoadedIterations(hsLog)
    /\ HeatBuffers(hsCall.heat.sol) = HeatBuffers(hsSol)

\* the same statement for second order and equal zone and instance index
C29_SecondOrderEqualIndices ==
  (dual_time_2nd /\ val_iZone = val_iInst) => C29_HeatHistoriesAgree

\* first order, zone and instance index equal, second adjoint time step: the
\* fluid controller loads Direct_Iter - 1 and the heat controller
\* Direct_Iter - 2, and the time-n arrays differ
C29_Witness ==
  /\ BothPreprocessed
  /\ dual_time_1st
  /\ val_iZone = val_iInst
  /\ cfgTimeIter = 1
  /\ LET D == cfg.Unst_AdjointIter - cfgTimeIter - 1
     IN /\ LoadedIterations(hsLog) = {D - 1}
        /\ LoadedIterations(hsCall.heat.log) = {D - 2}
        /\ \A l \in 0 .. cfg.nMGLevels :
             /\ hsSol[ThisSolver]["HEAT_SOL"][l].Solution_time_n = PrimalOf(D - 1)
             /\ hsCall.heat.sol[ThisSolver]["HEAT_SOL"][l].Solution_time_n = Initial

\* a call of CDiscAdjFEAIteration::SetRecording has returned
SetRecordingReturned == srPc = "idle" /\ srHist.calls >= 1

\* C30: CDiscAdjFEAIteration::SetRecording called for zone z leaves the
\* inner-iteration counter of zone z at its value at entry, for every zone
\* (also z # ZONE_0), on the linear and on the nonlinear primal path, with
\* and without the flush of a change of the recording.
C30_InnerIterKept ==
  SetRecordingReturned => cfgInnerIter[val_iZone] = srHist.entryInner[val_iZone]

\* the same statement for the calls for ZONE_0 and for those on the
\* nonlinear path
C30_Zone0OrNonlinear ==
  (val_iZone = ZONE_0 \/ cfg.GeometricConditions = "LARGE_DEFORMATIONS") => C30_InnerIterKept

\* a call for another zone than ZONE_0 on the linear path has returned with
\* the counter of that zone at 0
C30_Witness ==
  /\ SetRecordingReturned
  /\ val_iZone # ZONE_0
  /\ cfg.GeometricConditions = "SMALL_DEFORMATIONS"
  /\ srHist.entryInner[val_iZone] # 0
  /\ cfgInnerIter[val_iZone] = 0
  /\ cfgInnerIter[ZONE_0] = srHist.entryInner[ZONE_0]

(***************************************************************************)
(* The incremental-load path of CFEAIteration::Iterate: trial phase and    *)
(* continuation.                                                           *)
(***************************************************************************)
IsIterOrMonitor(e) == e[1] \in {"Structural_Iteration", "Monitor"}

\* the structural iterations and Monitor calls of the log, in their order
Steps(log) == SelectSeq(log, IsIterOrMonitor)

\* the steps n, n + 1 of the sequence st are the structural iteration of
\* inner iteration k and its Monitor call
IterationAt(st, n, k) ==
  /\ Len(st) >= n + 1
  /\ st[n][1] = "Structural_Iteration" /\ st[n][4] = k
  /\ st[n + 1][1] = "Monitor" /\ st[n + 1][2] = k

CriteriaTested == \E i \in 1 .. Len(feaLog) : feaLog[i][1] = "MeetCriteria"
CriteriaMet == \E i \in 1 .. Len(feaLog) : feaLog[i] = <<"MeetCriteria", TRUE>>

\* C31: on the incremental-load path the trial phase performs exactly two
\* structural iterations (inner iterations 0 and 1), each followed by one
\* Monitor call, whatever the first Monitor call returns and whatever
\* nInner_Iter is; Iterate returns right after the trial phase exactly when
\* the second Monitor call returned true; otherwise, when the criteria are
\* met, the continuation runs the inner iterations 2, 3, ... up to
\* nInner_Iter - 1, each with its Monitor call, ends at the first Monitor
\* call that returns true, and restores no initial condition.
C31_TrialAndContinuation ==
  (feaPc = "done" /\ cfg.GeometricConditions = "LARGE_DEFORMATIONS"
                  /\ cfg.IncrementalLoad /\ ~cfg.Discrete_Adjoint) =>
    LET st == Steps(feaLog)
        n == Len(st) \div 2
    IN /\ IterationAt(st, 1, 0)
       /\ IterationAt(st, 3, 1)
       /\ (Len(st) = 4 /\ ~CriteriaTested) <=> st[4][3]
       /\ CriteriaMet =>
            /\ Len(st) = 2 * n
            /\ \A k \in 2 .. (n - 1) : IterationAt(st, 2 * k + 1, k)
            /\ \A k \in 2 .. (n - 2) : ~st[2 * k + 2][3]
            /\ n <= (IF cfg.nInner_Iter > 2 THEN cfg.nInner_Iter ELSE 2)
            /\ (n < cfg.nInner_Iter) => (n > 2 /\ st[2 * n][3])
            /\ \A i \in 1 .. Len(feaLog) : feaLog[i][1] # "SetInitialCondition"
            /\ \A i \in 1 .. Len(feaLog) : feaLog[i][1] = "SetLoad_Increment" => feaLog[i][2] = 0

\* a run whose first trial Monitor call returned true and the second false,
\* whose criteria were met, and whose continuation ended at inner iteration 3
\* after an unconverged inner iteration 2
C31_Witness ==
  /\ feaPc = "done"
  /\ cfg.IncrementalLoad /\ ~cfg.Discrete_Adjoint
  /\ cfg.GeometricConditions = "LARGE_DEFORMATIONS"
  /\ CriteriaMet
  /\ LET st == Steps(feaLog)
     IN /\ Len(st) = 8
        /\ st[2][3] /\ ~st[4][3] /\ ~st[6][3] /\ st[8][3]
        /\ st[7][4] = 3
        /\ cfg.nInner_Iter >= 4

(***************************************************************************)
(* The full incremental sequence of CFEAIteration::Iterate.                *)
(***************************************************************************)
\* one increment: its part of the log starts with the reset of the output
\* convergence flag, and its Newton-Raphson loop runs between min(2,
\* nInner_Iter) and nInner_Iter structural iterations, fewer than nInner_Iter
\* only when the last Monitor call returned true at an inner iteration > 0
IncrementBounded(seg) ==
  LET st == Steps(seg)
      n == Len(st) \div 2
      first == Min({i \in 1 .. Len(seg) : seg[i][1] = "Structural_Iteration"})
  IN /\ Len(seg) >= 1 /\ seg[1] = <<"Output_SetConvergence", FALSE>>
     /\ n >= 1 => \A i \in 2 .. (first - 1) : seg[i][1] # "Output_SetConvergence"
     /\ Len(st) = 2 * n
     /\ \A k \in 0 .. (n - 1) : IterationAt(st, 2 * k + 1, k)
     /\ n >= (IF cfg.nInner_Iter < 2 THEN cfg.nInner_Iter ELSE 2)
     /\ n <= cfg.nInner_Iter
     /\ (n < cfg.nInner_Iter) => (st[2 * n][3] /\ st[2 * n][2] > 0)

\* C32: in the full incremental sequence every load increment resets the
\* output convergence flag to false before its first structural iteration,
\* performs at least min(2, nInner_Iter) and at most nInner_Iter structural
\* iterations, and ends early only at an inner iteration > 0 whose Monitor
\* call returned true; at no time of a call that takes this sequence has
\* Iterate performed more than 2 + nIncrements * nInner_Iter structural
\* iterations.
C32_IncrementsBounded ==
  /\ (feaPc # "idle" /\ cfg.IncrementalLoad /\ ~cfg.Discrete_Adjoint
        /\ cfg.GeometricConditions = "LARGE_DEFORMATIONS"
        /\ \A i \in 1 .. Len(feaLog) : feaLog[i] # <<"MeetCriteria", TRUE>>) =>
       Len(SelectSeq(feaLog, IsIter)) <= 2 + cfg.NumberIncrements * cfg.nInner_Iter
  /\ (feaPc = "done" /\ \E i \in 1 .. Len(feaLog) : feaLog[i] = <<"MeetCriteria", FALSE>>) =>
       /\ Cardinality(Positions(feaLog, IsIncrement)) = cfg.NumberIncrements
       /\ \A p \in Positions(feaLog, IsIncrement) : IncrementBounded(SegmentAfter(feaLog, p))

\* a full sequence with an increment that ended early at inner iteration 1
\* and an increment that went through all nInner_Iter >= 3 iterations
C32_Witness ==
  /\ feaPc = "done"
  /\ \E i \in 1 .. Len(feaLog) : feaLog[i] = <<"MeetCriteria", FALSE>>
  /\ cfg.nInner_Iter >= 3
  /\ \E p, q \in Positions(feaLog, IsIncrement) :
       /\ Len(Steps(SegmentAfter(feaLog, p))) = 4
       /\ Len(Steps(SegmentAfter(feaLog, q))) = 2 * cfg.nInner_Iter

(***************************************************************************)
(* The instance CFluidIteration::Solve passes on.                          *)
(***************************************************************************)
\* the calls of the log of Solve that take an instance index
TakesInstance(e) == e[1] \in {"Preprocess", "Iterate", "Monitor", "Output", "OutputOuter"}

\* C33: CFluidIteration::Solve called for instance i runs Preprocess, Iterate
\* and Monitor on instance i, the instance it passes to Output, also for
\* i # INST_0.
C33_SameInstance ==
  (solPc # "idle" /\ solKind = "Fluid") =>
    \A n \in 1 .. Len(solLog) : TakesInstance(solLog[n]) => solLog[n][2] = val_iInst

\* the same statement for the calls for INST_0
C33_Instance0 ==
  (val_iInst = INST_0) => C33_SameInstance

\* a Solve for another instance than INST_0 has run Preprocess, Iterate and
\* Monitor on INST_0 and passed its own instance to Output
C33_Witness ==
  /\ solPc = "after"
  /\ solKind = "Fluid"
  /\ val_iInst # INST_0
  /\ \E n \in 1 .. Len(solLog) : solLog[n][1] = "Output" /\ solLog[n][2] = val_iInst
  /\ \A what \in {"Preprocess", "Iterate", "Monitor"} :
       \E n \in 1 .. Len(solLog) : solLog[n][1] = what /\ solLog[n][2] = INST_0

(***************************************************************************)
(* The wall-function rule of CFluidIteration::Monitor within one Solve.    *)
(***************************************************************************)
\* the Monitor calls of the log in which the rule turned a converged result
\* into not-converged: SetWallFunction_Start_Iter is called right before
\* Monitor returns
RuleApplied(log) ==
  {n \in 2 .. Len(log) : log[n][1] = "Monitor" /\ log[n - 1][1] = "SetWallFunction_Start_Iter"}

UShortRange == 65536

\* the time iterations the adjoint runs start from: the first one, and one
\* shortly before the counter leaves the range of an unsigned short
StartIters == {0, UShortRange - 2}

ConfigDirectIter ==
  [ Unst_AdjointIter : {t + d : t \in StartIters, d \in 1 .. MaxUnstAdjointIter},
    Time_Marching : TimeMarching,
    Time_Domain : BOOLEAN ]

\* CDiscAdjFluidIteration::Preprocess, lines 1773-1802, and
\* CDiscAdjHeatIteration::Preprocess, lines 2953-2972: the index and the
\* choice of the TimeIter == 0 branch
DI_Preprocess_FluidHeat ==
  /\ hsCall.op = "none"
  /\ hsCall.controller \in {"DiscAdjFluid", "DiscAdjHeat"}
  /\ LET TimeIter == TimeIterOf(cfgTimeIter)
     IN hsCall' = [hsCall EXCEPT
                     !.op = "Preprocess",
                     !.computed = cfg.Time_Marching # "STEADY",
                     !.Direct_Iter = IF cfg.Time_Marching # "STEADY"
                                       THEN Direct_IterOf(cfg.Unst_AdjointIter, TimeIter)
                                       ELSE @,
                     !.first = cfg.Time_Marching # "STEADY" /\ TimeIter = 0]
  /\ UNCHANGED <<hsSol, hsGeo, hsLog>>
  /\ UNCHANGED <<cfgVars, feaVars, recVars, solVars, ldVars, gustVars>>

\* CDiscAdjFEAIteration::Preprocess, lines 2399-2409
DI_Preprocess_FEA ==
  /\ hsCall.op = "none"
  /\ hsCall.controller = "DiscAdjFEA"
  /\ LET TimeIter == TimeIterOf(cfgTimeIter)
     IN hsCall' = [hsCall EXCEPT
                     !.op = "Preprocess",
                     !.computed = cfg.Time_Domain,
                     !.Direct_Iter = IF cfg.Time_Domain
                                       THEN DirectTimeIterOf(cfg.Unst_AdjointIter, TimeIter)
                                       ELSE @]
  /\ UNCHANGED <<hsSol, hsGeo, hsLog>>
  /\ UNCHANGED <<cfgVars, feaVars, recVars, solVars, ldVars, gustVars>>

\* the driver goes to the next adjoint time step
DI_Advance ==
  /\ hsCall.op = "Preprocess"
  /\ cfgTimeIter + 1 < cfg.Unst_AdjointIter
  /\ cfgTimeIter' = cfgTimeIter + 1
  /\ hsCall' = [hsCall EXCEPT !.op = "none", !.computed = FALSE, !.first = FALSE]
  /\ UNCHANGED <<cfg, cfgInnerIter, val_iZone>>
  /\ UNCHANGED <<hsSol, hsGeo, hsLog>>
  /\ UNCHANGED <<feaVars, recVars, solVars, ldVars, gustVars>>

InitDirectIter ==
  /\ cfg \in ConfigDirectIter
  /\ cfgInnerIter = [z \in Zones |-> 0]
  /\ cfgTimeIter \in StartIters
  /\ cfgTimeIter < cfg.Unst_AdjointIter
  /\ cfg.Unst_AdjointIter <= cfgTimeIter + MaxUnstAdjointIter
  /\ val_iZone = ZONE_0
  /\ FEAAtRest
  /\ RecAtRest
  /\ SolveAtRest
  /\ LoadAtRest
  /\ GustAtRest
  /\ hsSol = <<>>
  /\ hsGeo = <<>>
  /\ hsLog = <<>>
  /\ \E controller \in Controllers :
       hsCall = [op |-> "none", controller |-> controller, computed |-> FALSE,
                 Direct_Iter |-> 0, first |-> FALSE]

NextDirectIter ==
  \/ DI_Preprocess_FluidHeat
  \/ DI_Preprocess_FEA
  \/ DI_Advance

SpecDirectIter == InitDirectIter /\ [][NextDirectIter]_vars

\* C35: the direct-iteration index the three Preprocess functions compute
\* is Unst_AdjointIter - TimeIter - 1, minus one more for fluid and heat
\* when the time marching is not dual time stepping, for every value of the
\* time-iteration counter of the config, also for TimeIter >= 65536, and the
\* TimeIter == 0 branch is taken only when the counter is 0.
C35_DirectIterIndex ==
  (hsCall.op = "Preprocess") =>
    /\ hsCall.computed =>
         hsCall.Direct_Iter =
           cfg.Unst_AdjointIter - cfgTimeIter - 1
             - (IF hsCall.controller \in {"DiscAdjFluid", "DiscAdjHeat"}
                   /\ cfg.Time_Marching \notin {"DT_STEPPING_1ST", "DT_STEPPING_2ND"}
                  THEN 1 ELSE 0)
    /\ hsCall.first => cfgTimeIter = 0

\* the same statement for the counters an unsigned short holds
C35_ShortCounter ==
  (cfgTimeIter < UShortRange) => C35_DirectIterIndex

\* at counter 65536 the fluid Preprocess takes the TimeIter == 0 branch and
\* computes the index Unst_AdjointIter - 1
C35_Witness ==
  /\ hsCall.op = "Preprocess"
  /\ hsCall.controller = "DiscAdjFluid"
  /\ cfgTimeIter = UShortRange
  /\ cfg.Time_Marching = "DT_STEPPING_2ND"
  /\ hsCall.first
  /\ hsCall.Direct_Iter = cfg.Unst_AdjointIter - 1

(***************************************************************************)
(* CIteration::SetMesh_Deformation, lines 225-253, stepped by the position *)
(* hsCall.pc.  The log holds the calls on the mesh solver with the state   *)
(* of the tape during the call.                                            *)
(***************************************************************************)
ConfigMeshDeformation ==
  [ Deform_Mesh : BOOLEAN,
    Multizone_Problem : BOOLEAN ]

\* AD::BeginPassive(): the tape is switched to passive; the result tells
\* whether it was active
BeginPassive(active) == [wasActive |-> active, tapeActive |-> FALSE]

\* AD::EndPassive(wasActive): the tape is switched back when it was active
EndPassive(wasActive, active) == IF wasActive THEN TRUE ELSE active

\* line 236: the recordings during which the deformation is kept off the tape
DeformsPassive_Mut(kind_recording) == TRUE

DeformsPassive(kind_recording) ==
  kind_recording # "MESH_DEFORM" /\ ~cfg.Multizone_Problem

\* the driver starts or stops the recording between two calls
MD_Toggle ==
  /\ hsCall.pc = "idle"
  /\ tapeActive' = ~tapeActive
  /\ UNCHANGED <<tape, CurrentRecording, srPc, srLocal, srLog, srHist>>
  /\ UNCHANGED <<cfgVars, feaVars, solVars, ldVars, otherVars>>

\* SetMesh_Deformation is called; line 231: nothing is done without mesh
\* deformation
MD_Call ==
  /\ hsCall.pc = "idle"
  /\ \E kind_recording \in RecordingKinds :
       hsCall' = [op |-> "SetMesh_Deformation",
                  pc |-> IF ~cfg.Deform_Mesh THEN "returned" ELSE "begin",
                  kind_recording |-> kind_recording,
                  entryActive |-> tapeActive,
                  wasActive |-> FALSE]
  /\ hsLog' = <<>>
  /\ UNCHANGED <<hsSol, hsGeo>>
  /\ UNCHANGED <<cfgVars, feaVars, recVars, solVars, ldVars, gustVars>>

\* lines 235-240
MD_BeginPassive ==
  /\ hsCall.pc = "begin"
  /\ IF DeformsPassive(hsCall.kind_recording)
       THEN /\ tapeActive' = BeginPassive(tapeActive).tapeActive
            /\ hsCall' = [hsCall EXCEPT !.pc = "stiffness",
                                        !.wasActive = BeginPassive(tapeActive).wasActive]
            /\ hsLog' = Append(hsLog, <<"BeginPassive", tapeActive>>)
       ELSE /\ tapeActive' = tapeActive
            /\ hsCall' = [hsCall EXCEPT !.pc = "stiffness"]
            /\ hsLog' = hsLog
  /\ UNCHANGED <<hsSol, hsGeo>>
  /\ UNCHANGED <<tape, CurrentRecording, srPc, srLocal, srLog, srHist>>
  /\ UNCHANGED <<cfgVars, feaVars, solVars, ldVars, gustVars>>

\* line 244: SetMesh_Stiffness
MD_SetMesh_Stiffness ==
  /\ hsCall.pc = "stiffness"
  /\ hsCall' = [hsCall EXCEPT !.pc = "deform"]
  /\ hsLog' = Append(hsLog, <<"SetMesh_Stiffness", tapeActive>>)
  /\ UNCHANGED <<hsSol, hsGeo>>
  /\ UNCHANGED <<cfgVars, feaVars, recVars, solVars, ldVars, gustVars>>

\* line 248: DeformMesh
MD_DeformMesh ==
  /\ hsCall.pc = "deform"
  /\ hsCall' = [hsCall EXCEPT !.pc = "end"]
  /\ hsLog' = Append(hsLog, <<"DeformMesh", tapeActive>>)
  /\ UNCHANGED <<hsSol, hsGeo>>
  /\ UNCHANGED <<cfgVars, feaVars, recVars, solVars, ldVars, gustVars>>

\* line 251: AD::EndPassive(wasActive)
MD_EndPassive ==
  /\ hsCall.pc = "end"
  /\ tapeActive' = EndPassive(hsCall.wasActive, tapeActive)
  /\ hsCall' = [hsCall EXCEPT !.pc = "returned"]
  /\ hsLog' = Append(hsLog, <<"EndPassive", hsCall.wasActive>>)
  /\ UNCHANGED <<hsSol, hsGeo>>
  /\ UNCHANGED <<tape, CurrentRecording, srPc, srLocal, srLog, srHist>>
  /\ UNCHANGED <<cfgVars, feaVars, solVars, ldVars, gustVars>>

\* the caller goes on
MD_Return ==
  /\ hsCall.pc = "returned"
  /\ hsCall' = [hsCall EXCEPT !.pc = "idle"]
  /\ UNCHANGED <<hsSol, hsGeo, hsLog>>
  /\ UNCHANGED <<cfgVars, feaVars, recVars, solVars, ldVars, gustVars>>

InitMeshDeformation ==
  /\ cfg \in ConfigMeshDeformation
  /\ cfgInnerIter = [z \in Zones |-> 0]
  /\ cfgTimeIter = 0
  /\ val_iZone = ZONE_0
  /\ FEAAtRest
  /\ RecAtRest
  /\ SolveAtRest
  /\ LoadAtRest
  /\ GustAtRest
  /\ hsSol = <<>>
  /\ hsGeo = <<>>
  /\ hsLog = <<>>
  /\ hsCall = [op |-> "none", pc |-> "idle", kind_recording |-> "NONE",
               entryActive |-> FALSE, wasActive |-> FALSE]

NextMeshDeformation ==
  \/ MD_Toggle
  \/ MD_Call
  \/ MD_BeginPassive
  \/ MD_SetMesh_Stiffness
  \/ MD_DeformMesh
  \/ MD_EndPassive
  \/ MD_Return

SpecMeshDeformation == InitMeshDeformation /\ [][NextMeshDeformation]_vars

\* the state of the tape during the stiffness and the deformation call
DuringDeformation ==
  {hsLog[n][2] : n \in {x \in 1 .. Len(hsLog) : hsLog[x][1] \in {"SetMesh_Stiffness", "DeformMesh"}}}

\* C36: when SetMesh_Deformation returns the tape is active exactly when it
\* was at entry: without mesh deformation nothing is called; for the
\* recording MESH_DEFORM and for a multizone problem the tape is never
\* switched to passive; for every other recording the tape is passive during
\* the stiffness and the deformation call and switched back only when it was
\* active at entry.
C36_TapeStateKept ==
  (hsCall.pc = "returned") =>
    /\ tapeActive = hsCall.entryActive
    /\ ~cfg.Deform_Mesh => hsLog = <<>>
    /\ cfg.Deform_Mesh =>
         IF hsCall.kind_recording = "MESH_DEFORM" \/ cfg.Multizone_Problem
           THEN /\ \A n \in 1 .. Len(hsLog) : hsLog[n][1] # "BeginPassive"
                /\ DuringDeformation = {hsCall.entryActive}
           ELSE /\ DuringDeformation = {FALSE}
                /\ hsCall.wasActive = hsCall.entryActive
                /\ hsLog[Len(hsLog)] = <<"EndPassive", hsCall.entryActive>>

\* a call during an active recording of the solution variables has returned:
\* the deformation ran with the tape passive and the tape is active again
C36_Witness ==
  /\ hsCall.pc = "returned"
  /\ cfg.Deform_Mesh /\ ~cfg.Multizone_Problem
  /\ hsCall.kind_recording = "SOLUTION_VARIABLES"
  /\ hsCall.entryActive
  /\ DuringDeformation = {FALSE}
  /\ tapeActive

(***************************************************************************)
(* CFluidIteration::Preprocess calling SetWind_GustField more than once at *)
(* one time iteration, lines 390-394: the drivers call Preprocess once per *)
(* outer iteration.  hsCall = [op, calls, first]: the number of calls made *)
(* at this time iteration and the mesh the first of them left.  The calls   *)
(* studied here are those that reach the loop over the points: the gust    *)
(* length is positive and the vortex file opens.                           *)
(***************************************************************************)
\* Preprocess is entered again at the same time iteration, lines 390-394
GT_Repeat ==
  /\ gustPc = "done"
  /\ hsCall.calls = 1
  /\ hsCall' = [hsCall EXCEPT !.calls = 2, !.first = gustNodes]
  /\ gustPc' = "idle"
  /\ UNCHANGED <<gustNodes, gustFile, gustVortex, gustPos>>
  /\ UNCHANGED <<hsSol, hsGeo, hsLog>>
  /\ UNCHANGED <<cfgVars, feaVars, recVars, solVars, ldVars>>

\* the time step is over: Preprocess is entered at the next time iteration
GT_NextTimeIter ==
  /\ gustPc = "done"
  /\ hsCall.calls = 2
  /\ cfgTimeIter < MaxTimeIter
  /\ cfgTimeIter' = cfgTimeIter + 1
  /\ hsCall' = [hsCall EXCEPT !.calls = 1, !.first = <<>>]
  /\ gustPc' = "idle"
  /\ UNCHANGED <<gustNodes, gustFile, gustVortex, gustPos>>
  /\ UNCHANGED <<hsSol, hsGeo, hsLog>>
  /\ UNCHANGED <<cfg, cfgInnerIter, val_iZone>>
  /\ UNCHANGED <<feaVars, recVars, solVars, ldVars>>

InitGustTwice ==
  /\ cfg \in ConfigGust
  /\ cfgInnerIter = [z \in Zones |-> EntryInnerIter + z]
  /\ cfgTimeIter = 0
  /\ val_iZone = ZONE_0
  /\ FEAAtRest
  /\ RecAtRest
  /\ SolveAtRest
  /\ LoadAtRest
  /\ hsSol = <<>>
  /\ hsGeo = <<>>
  /\ hsLog = <<>>
  /\ hsCall = [op |-> "none", calls |-> 1, first |-> <<>>]
  /\ gustPc = "idle"
  /\ gustNodes = InitialGustNodes
  /\ cfg.Gust_WaveLength > 0
  /\ gustFile \in VortexFiles
  /\ gustFile.present
  /\ \A i \in 1 .. Len(gustFile.lines) : gustFile.lines[i] # " "
  /\ (cfg.Gust_Type # "VORTEX") => Len(gustFile.lines) <= 1
  /\ gustVortex = [nVortex |-> 0, x0 |-> <<>>, opened |-> FALSE, error |-> "none"]
  /\ gustPos = [iMGlevel |-> 0, iPoint |-> 0]

NextGustTwice ==
  \/ GUST_Call
  \/ GUST_Point
  \/ GT_Repeat
  \/ GT_NextTimeIter

SpecGustTwice == InitGustTwice /\ [][NextGustTwice]_vars

\* C37: with the grid movement GUST, when the second call of
\* SetWind_GustField at one time iteration is over, every point of every
\* level has the grid velocity, the stored gust and the stored gust
\* derivatives the first call left, and its grid velocity is zero minus its
\* stored gust.
C37_SecondCallSameResult ==
  (cfg.Kind_GridMovement = "GUST" /\ gustPc = "done" /\ hsCall.calls = 2) =>
    \A l \in 0 .. cfg.nMGLevels : \A pt \in 0 .. (cfg.nPoint - 1) :
      /\ gustNodes[l][pt].GridVel = hsCall.first[l][pt].GridVel
      /\ gustNodes[l][pt].WindGust = hsCall.first[l][pt].WindGust
      /\ gustNodes[l][pt].WindGustDer = hsCall.first[l][pt].WindGustDer
      /\ \A iDim \in 0 .. (nDim - 1) :
           gustNodes[l][pt].GridVel[iDim] =
             [base |-> 0, minus |-> <<gustNodes[l][pt].WindGust[iDim]>>]

\* the second call at a later time iteration is over on a mesh of two levels
\* where some point carries a gust that is not zero
C37_Witness ==
  /\ cfg.Kind_GridMovement = "GUST"
  /\ gustPc = "done"
  /\ hsCall.calls = 2
  /\ cfgTimeIter >= 1
  /\ cfg.nMGLevels >= 1
  /\ \E pt \in 0 .. (cfg.nPoint - 1) :
       /\ gustNodes[1][pt].WindGust[cfg.Gust_Dir] # <<"const", 0, 0, 1>>
       /\ gustNodes[1][pt].WindGust[cfg.Gust_Dir] # Untouched

(***************************************************************************)
(* CPointFEM::operator< and CPointFEM::operator==.  A point is             *)
(* [globalID, periodIndexToDonor]; the donor index is -1 for a point that  *)
(* has no periodic donor.  hsCall = [op, pts, less, equal]: three points   *)
(* and the results of the two operators on every pair of them, <<>> while  *)
(* not yet computed.                                                       *)
(***************************************************************************)
PointsFEM == [globalID : 0 .. MaxGlobalID, periodIndexToDonor : (0 - 1) .. MaxPeriodIndex]

\* CPointFEM::operator<, CPointFEM.cpp lines 30-34
CPointFEM_Less_Mut(this, other) == this.globalID < other.globalID

CPointFEM_Less(this, other) ==
  IF this.periodIndexToDonor # other.periodIndexToDonor
    THEN this.periodIndexToDonor < other.periodIndexToDonor
    ELSE this.globalID < other.globalID

\* CPointFEM::operator==, CPointFEM.cpp lines 36-39
CPointFEM_Equal(this, other) ==
  this.globalID = other.globalID /\ this.periodIndexToDonor = other.periodIndexToDonor

\* operator< is applied to every pair of the three points
PT_Less ==
  /\ hsCall.op = "points"
  /\ hsCall.less = <<>>
  /\ hsCall' = [hsCall EXCEPT !.less =
                  [i \in 1 .. 3 |-> [j \in 1 .. 3 |->
                     CPointFEM_Less(hsCall.pts[i], hsCall.pts[j])]]]
  /\ UNCHANGED <<hsSol, hsGeo, hsLog>>
  /\ UNCHANGED <<cfgVars, feaVars, recVars, solVars, ldVars, gustVars>>

\* operator== is applied to every pair of the three points
PT_Equal ==
  /\ hsCall.op = "points"
  /\ hsCall.equal = <<>>
  /\ hsCall' = [hsCall EXCEPT !.equal =
                  [i \in 1 .. 3 |-> [j \in 1 .. 3 |->
                     CPointFEM_Equal(hsCall.pts[i], hsCall.pts[j])]]]
  /\ UNCHANGED <<hsSol, hsGeo, hsLog>>
  /\ UNCHANGED <<cfgVars, feaVars, recVars, solVars, ldVars, gustVars>>

InitPoints ==
  /\ cfg = [kind |-> "points"]
  /\ cfgInnerIter = [z \in Zones |-> 0]
  /\ cfgTimeIter = 0
  /\ val_iZone = ZONE_0
  /\ FEAAtRest
  /\ RecAtRest
  /\ SolveAtRest
  /\ LoadAtRest
  /\ GustAtRest
  /\ hsSol = <<>>
  /\ hsGeo = <<>>
  /\ hsLog = <<>>
  /\ \E a \in PointsFEM, b \in PointsFEM, c \in PointsFEM :
       hsCall = [op |-> "points", pts |-> <<a, b, c>>, less |-> <<>>, equal |-> <<>>]

NextPoints ==
  \/ PT_Less
  \/ PT_Equal

SpecPoints == InitPoints /\ [][NextPoints]_vars

\* C38: on any three points operator< is irreflexive and transitive, being
\* unordered by it is transitive, it holds exactly when the donor index of
\* the left point is smaller or the donor indices are equal and the global
\* ID of the left point is smaller, and operator== holds of two points
\* exactly when operator< holds in neither direction.
C38_StrictWeakOrdering ==
  (hsCall.op = "points" /\ hsCall.less # <<>> /\ hsCall.equal # <<>>) =>
    LET pts == hsCall.pts
        less == hsCall.less
        equal == hsCall.equal
    IN \A i \in 1 .. 3 : \A j \in 1 .. 3 :
         /\ ~less[i][i]
         /\ \A k \in 1 .. 3 :
              /\ (less[i][j] /\ less[j][k]) => less[i][k]
              /\ (~less[i][j] /\ ~less[j][i] /\ ~less[j][k] /\ ~less[k][j]) =>
                   (~less[i][k] /\ ~less[k][i])
         /\ less[i][j] <=>
              \/ pts[i].periodIndexToDonor < pts[j].periodIndexToDonor
              \/ /\ pts[i].periodIndexToDonor = pts[j].periodIndexToDonor
                 /\ pts[i].globalID < pts[j].globalID
         /\ equal[i][j] <=> (~less[i][j] /\ ~less[j][i])

\* both operators were applied to three points of which the first precedes
\* the second by its donor index though its global ID is larger, and the
\* third is a copy of the second
C38_Witness ==
  /\ hsCall.op = "points" /\ hsCall.less # <<>> /\ hsCall.equal # <<>>
  /\ hsCall.pts[1].periodIndexToDonor < hsCall.pts[2].periodIndexToDonor
  /\ hsCall.pts[1].globalID > hsCall.pts[2].globalID
  /\ hsCall.pts[3] = hsCall.pts[2]
  /\ hsCall.less[1][2] /\ ~hsCall.less[2][1]
  /\ hsCall.equal[2][3] /\ ~hsCall.equal[1][2]

(***************************************************************************)
(* The constructor of the zone/variable metadata, lines 3271-3272.  The    *)
(* data set holds the zones 0 .. baseZone + numZones - 1, of which the     *)
(* zones from baseZone on belong to the file.  hsCall = [op, pc,           *)
(* allowSharingBetweenFiles, baseZone, numZones, numVars, shape, enabled,  *)
(* zoneShare, vzShare, iVar, iZone, prev, asserted]: shape[z] is the type  *)
(* and the IJK size of data set zone z, enabled[f] tells whether file zone *)
(* f is enabled, zoneShare and vzShare are m_zoneShareConnectivityWithZone *)
(* and m_vzShareVarWithZone, prev is the previous shared zone the last     *)
(* step was given, asserted tells whether every assertion so far held.     *)
(***************************************************************************)
\* the value of an entry of a zone that shares nothing
NOT_SHARED == 0 - 1

\* an array element that was allocated and never written
Unset == "unset"

\* the data sets before the zones of the file: none, or one zone
BaseZones == {0, 1}

ZoneShapes == {<<"ORDERED", 1>>, <<"ORDERED", 2>>, <<"FE", 1>>}

\* the previous shared zones the data set may report for data set zone d:
\* none, or an earlier zone, which is enabled when it belongs to the file
PrevSharedZones(d) ==
  {NOT_SHARED} \cup
    {q \in 0 .. (d - 1) : q >= hsCall.baseZone => hsCall.enabled[q - hsCall.baseZone]}

\* the entry of a zone from its previous shared zone, line 3271
ShareEntry_Mut(prevSharedZone, baseZone, allow, share) ==
  IF prevSharedZone = NOT_SHARED THEN NOT_SHARED
  ELSE IF prevSharedZone < baseZone
    THEN (IF allow THEN prevSharedZone ELSE NOT_SHARED)
    ELSE prevSharedZone - baseZone

ShareEntry(prevSharedZone, baseZone, allow, share) ==
  IF prevSharedZone = NOT_SHARED THEN NOT_SHARED
  ELSE IF prevSharedZone < baseZone
    THEN (IF allow THEN prevSharedZone ELSE NOT_SHARED)
    ELSE IF share[prevSharedZone - baseZone] = NOT_SHARED
      THEN prevSharedZone - baseZone
      ELSE share[prevSharedZone - baseZone]

\* the condition of the two assertions, lines 3271-3272
ShareAssertion(allow, share, fileZone) ==
  ~allow =>
    \/ share[fileZone] = NOT_SHARED
    \/ /\ share[fileZone] \in DOMAIN share
       /\ share[share[fileZone]] = NOT_SHARED

\* varGetPrevSharedZone, line 3271: two ordered zones share a variable only
\* with equal IJK sizes, other zones only when the zone shares connectivity
varGetPrevSharedZone(zone, baseZone, prevSharedZone, shape, zoneShare) ==
  IF prevSharedZone # NOT_SHARED
    THEN IF shape[zone][1] = "ORDERED" /\ shape[prevSharedZone][1] = "ORDERED"
           THEN (IF shape[zone][2] # shape[prevSharedZone][2]
                   THEN NOT_SHARED ELSE prevSharedZone)
           ELSE IF zoneShare[zone - baseZone] = NOT_SHARED
             THEN NOT_SHARED ELSE prevSharedZone
    ELSE prevSharedZone

\* one pass of the loop over the zones: a zone that is not enabled is skipped
ZVM_Zone ==
  /\ hsCall.op = "metadata"
  /\ hsCall.pc = "zones"
  /\ LET fileZone == hsCall.iZone
         zone == fileZone + hsCall.baseZone
         after == IF fileZone + 1 < hsCall.numZones THEN "zones"
                  ELSE IF hsCall.numVars > 0 THEN "vars" ELSE "done"
         nextZone == IF fileZone + 1 < hsCall.numZones THEN fileZone + 1 ELSE 0
     IN IF ~hsCall.enabled[fileZone]
          THEN hsCall' = [hsCall EXCEPT !.pc = after, !.iZone = nextZone]
          ELSE \E prevSharedZone \in PrevSharedZones(zone) :
                 LET share == [hsCall.zoneShare EXCEPT ![fileZone] =
                                 ShareEntry(prevSharedZone, hsCall.baseZone,
                                            hsCall.allowSharingBetweenFiles,
                                            hsCall.zoneShare)]
                 IN hsCall' = [hsCall EXCEPT
                      !.zoneShare = share,
                      !.prev = prevSharedZone,
                      !.asserted = @ /\ ShareAssertion(hsCall.allowSharingBetweenFiles,
                                                       share, fileZone),
                      !.pc = after,
                      !.iZone = nextZone]
  /\ UNCHANGED <<hsSol, hsGeo, hsLog>>
  /\ UNCHANGED <<cfgVars, feaVars, recVars, solVars, ldVars, gustVars>>

\* one pass of the inner loop over the zones of the loop over the variables
ZVM_VarZone ==
  /\ hsCall.op = "metadata"
  /\ hsCall.pc = "vars"
  /\ LET fileVar == hsCall.iVar
         fileZone == hsCall.iZone
         zone == fileZone + hsCall.baseZone
         lastZone == fileZone + 1 >= hsCall.numZones
         after == IF lastZone /\ fileVar + 1 >= hsCall.numVars THEN "done" ELSE "vars"
         nextZone == IF lastZone THEN 0 ELSE fileZone + 1
         nextVar == IF lastZone THEN fileVar + 1 ELSE fileVar
     IN IF ~hsCall.enabled[fileZone]
          THEN hsCall' = [hsCall EXCEPT !.pc = after, !.iZone = nextZone, !.iVar = nextVar]
          ELSE \E reported \in PrevSharedZones(zone) :
                 LET prevSharedZone ==
                       varGetPrevSharedZone(zone, hsCall.baseZone, reported,
                                            hsCall.shape, hsCall.zoneShare)
                     share == [hsCall.vzShare[fileVar] EXCEPT ![fileZone] =
                                 ShareEntry(prevSharedZone, hsCall.baseZone,
                                            hsCall.allowSharingBetweenFiles,
                                            hsCall.vzShare[fileVar])]
                 IN hsCall' = [hsCall EXCEPT
                      !.vzShare = [@ EXCEPT ![fileVar] = share],
                      !.prev = prevSharedZone,
                      !.asserted = @ /\ ShareAssertion(hsCall.allowSharingBetweenFiles,
                                                       share, fileZone),
                      !.pc = after,
                      !.iZone = nextZone,
                      !.iVar = nextVar]
  /\ UNCHANGED <<hsSol, hsGeo, hsLog>>
  /\ UNCHANGED <<cfgVars, feaVars, recVars, solVars, ldVars, gustVars>>

InitZoneVarMetadata ==
  /\ cfg = [kind |-> "metadata"]
  /\ cfgInnerIter = [z \in Zones |-> 0]
  /\ cfgTimeIter = 0
  /\ val_iZone = ZONE_0
  /\ FEAAtRest
  /\ RecAtRest
  /\ SolveAtRest
  /\ LoadAtRest
  /\ GustAtRest
  /\ hsSol = <<>>
  /\ hsGeo = <<>>
  /\ hsLog = <<>>
  /\ \E allow \in BOOLEAN, baseZone \in BaseZones,
        numZones \in 1 .. MaxFileZones, numVars \in 0 .. MaxFileVars :
       \E shape \in [0 .. (baseZone + numZones - 1) -> ZoneShapes],
          enabled \in [0 .. (numZones - 1) -> BOOLEAN] :
         hsCall = [op |-> "metadata", pc |-> "zones",
                   allowSharingBetweenFiles |-> allow,
                   baseZone |-> baseZone, numZones |-> numZones, numVars |-> numVars,
                   shape |-> shape, enabled |-> enabled,
                   zoneShare |-> [f \in 0 .. (numZones - 1) |-> Unset],
                   vzShare |-> [v \in 0 .. (numVars - 1) |->
                                  [f \in 0 .. (numZones - 1) |-> Unset]],
                   iVar |-> 0, iZone |-> 0, prev |-> NOT_SHARED, asserted |-> TRUE]

NextZoneVarMetadata ==
  \/ ZVM_Zone
  \/ ZVM_VarZone

SpecZoneVarMetadata == InitZoneVarMetadata /\ [][NextZoneVarMetadata]_vars

\* the file zones the loop over the zones has processed; those of variable v
ProcessedZones ==
  {f \in 0 .. (hsCall.numZones - 1) :
     hsCall.enabled[f] /\ (hsCall.pc = "zones" => f < hsCall.iZone)}

ProcessedVarZones(v) ==
  {f \in 0 .. (hsCall.numZones - 1) :
     /\ hsCall.enabled[f]
     /\ hsCall.pc # "zones"
     /\ (hsCall.pc = "vars" => (v < hsCall.iVar \/ (v = hsCall.iVar /\ f < hsCall.iZone)))}

====
